---- MODULE Spec2Model ----
(***************************************************************************)
(* Shopping-list core of odin-recipes: IngredientProcessor (line parser,   *)
(* unit normaliser, categoriser, consolidator) and ShoppingListGenerator.  *)
(*                                                                         *)
(* A JavaScript string is the tuple of its characters, so that trim,       *)
(* toLowerCase, the regular expressions and the template-string keys are   *)
(* computed character by character.  The character "n~" stands for the     *)
(* letter n-tilde of 'jalapeno'.  JavaScript values that may be null, a    *)
(* string, a number or an object are tagged records (field t).  A number   *)
(* is an exact fraction n/d in lowest terms; 1/0 is Infinity and 0/0 is    *)
(* NaN (the regular expressions admit no sign, so no negative value and no *)
(* -Infinity arises).  IEEE-754 rounding of the doubles is not modelled.   *)
(***************************************************************************)
EXTENDS Integers, Sequences, FiniteSets, TLC

VARIABLES
  pc,              \* "ready" before the call(s), "done" after
  ingredientText,  \* argument of parseIngredient
  parsed,          \* its return value
  ingredients,     \* argument of consolidateIngredients
  consolidated,    \* its return value
  recipes,         \* argument of ShoppingListGenerator.generateFromMultipleRecipes
  listResult,      \* its return value
  itemText,        \* argument of categorizeIngredient
  itemCategory,    \* its return value
  fractionText,    \* argument of parseFraction
  fractionString,  \* formatAsFraction of its return value
  heap,            \* the objects (shopping lists and their items), by address
  heldList,        \* address of the shopping list the caller holds (0: none)
  lastCall,        \* the last call made on the manager or the generator
  callResult,      \* its return value
  heapBefore,      \* the heap as it was when the last call was made
  calls,           \* number of transformations applied to the held list
  reminderList,    \* first argument of generateReminderUrl
  reminderOptions, \* its second argument
  urlResult,       \* its return value
  savedLists,      \* the Map of the manager: its entries in insertion order
  now,             \* the clock read by new Date(), in milliseconds
  storeCall,       \* the last call made on the saved-list store
  storeResult,     \* its return value
  savedBefore,     \* savedLists as it was when the last call was made
  storeLog,        \* the calls made so far that write to the store
  repository,      \* the recipes of the repository, in the order of findAll
  repositoryAtStart, \* the repository as it was before the first call
  tasks            \* the calls in progress on the manager, one for each caller

parseVars == <<ingredientText, parsed>>
consolidateVars == <<ingredients, consolidated>>
generateVars == <<recipes, listResult>>
categorizeVars == <<itemText, itemCategory>>
fractionVars == <<fractionText, fractionString>>
managerVars == <<heap, heldList, lastCall, callResult, heapBefore, calls>>
reminderVars == <<reminderList, reminderOptions, urlResult>>
storeVars == <<savedLists, now, storeCall, storeResult, savedBefore, storeLog>>
asyncVars == <<repository, repositoryAtStart, tasks>>

vars == <<pc, parseVars, consolidateVars, generateVars, categorizeVars, fractionVars,
          managerVars, reminderVars, storeVars, asyncVars>>

---------------------------------------------------------------------------
(* JavaScript values *)

JsNull == [t |-> "null"]
Undefined == [t |-> "undefined"]
Str(s) == [t |-> "string", s |-> s]
\* The function Object, reached as unitMap['constructor'] through the prototype chain.
ObjectFunction == [t |-> "function", name |-> "Object"]
\* Object.prototype, reached as unitMap['__proto__'].
ObjectPrototype == [t |-> "object", name |-> "Object.prototype"]

\* Each specification exercises one group of variables; the others stay idle.
IdleBut(group) ==
  /\ IF group = "parse" THEN TRUE ELSE ingredientText = JsNull /\ parsed = JsNull
  /\ IF group = "consolidate" THEN TRUE ELSE ingredients = << >> /\ consolidated = << >>
  /\ IF group = "generate" THEN TRUE ELSE recipes = << >> /\ listResult = JsNull
  /\ IF group = "categorize" THEN TRUE ELSE itemText = JsNull /\ itemCategory = JsNull
  /\ IF group = "fraction" THEN TRUE ELSE fractionText = JsNull /\ fractionString = JsNull
  /\ IF group = "manager" THEN TRUE
     ELSE /\ heap = << >> /\ heldList = 0 /\ lastCall = [op |-> "none"]
          /\ callResult = JsNull /\ heapBefore = << >> /\ calls = 0
  /\ IF group = "reminder" THEN TRUE ELSE reminderList = JsNull /\ reminderOptions = JsNull /\ urlResult = JsNull
  /\ IF group = "store" THEN TRUE
     ELSE /\ savedLists = << >> /\ now = 0 /\ storeCall = [op |-> "none"]
          /\ storeResult = JsNull /\ savedBefore = << >> /\ storeLog = << >>
  /\ IF group = "async" THEN TRUE
     ELSE repository = << >> /\ repositoryAtStart = << >> /\ tasks = << >>

UnchangedBut(group) ==
  /\ IF group = "parse" THEN TRUE ELSE UNCHANGED parseVars
  /\ IF group = "consolidate" THEN TRUE ELSE UNCHANGED consolidateVars
  /\ IF group = "generate" THEN TRUE ELSE UNCHANGED generateVars
  /\ IF group = "categorize" THEN TRUE ELSE UNCHANGED categorizeVars
  /\ IF group = "fraction" THEN TRUE ELSE UNCHANGED fractionVars
  /\ IF group \in {"manager", "async"} THEN TRUE ELSE UNCHANGED managerVars
  /\ IF group = "reminder" THEN TRUE ELSE UNCHANGED reminderVars
  /\ IF group = "store" THEN TRUE ELSE UNCHANGED storeVars
  /\ IF group = "async" THEN TRUE ELSE UNCHANGED asyncVars

RECURSIVE Gcd(_, _)
Gcd(a, b) == IF b = 0 THEN a ELSE Gcd(b, a % b)

\* The number n/d (n, d >= 0): lowest terms; d = 0 gives Infinity (n > 0) or NaN (n = 0).
Num(n, d) ==
  IF d = 0 THEN [t |-> "number", n |-> IF n = 0 THEN 0 ELSE 1, d |-> 0]
  ELSE LET g == Gcd(n, d) IN [t |-> "number", n |-> n \div g, d |-> d \div g]

Infinity == Num(1, 0)
NaN == Num(0, 0)
IsNaN(x) == x = NaN
IsFinite(x) == x.t = "number" /\ x.d # 0

---------------------------------------------------------------------------
(* Numbers as the program holds them: IEEE 754 binary64.  A finite number   *)
(* that is not negative is m * 2^e with a significand m of exactly 53 bits  *)
(* (0 has the empty significand).  Significands and the exact sums before   *)
(* rounding are natural numbers of any size, written as sequences of limbs  *)
(* in base 2^15, the least significant limb first, without a leading zero.  *)

LimbBits == 15
LimbBase == 2^LimbBits
SignificandBits == 53

RECURSIVE BigFromNat(_)
BigFromNat(n) == IF n = 0 THEN << >> ELSE <<n % LimbBase>> \o BigFromNat(n \div LimbBase)

RECURSIVE BigNorm(_)
BigNorm(a) ==
  IF a # << >> /\ a[Len(a)] = 0 THEN BigNorm(SubSeq(a, 1, Len(a) - 1)) ELSE a

Limb(a, i) == IF i \in DOMAIN a THEN a[i] ELSE 0

RECURSIVE BigAddFrom(_, _, _, _)
BigAddFrom(a, b, i, carry) ==
  IF i > Len(a) /\ i > Len(b) THEN (IF carry = 0 THEN << >> ELSE <<carry>>)
  ELSE <<(Limb(a, i) + Limb(b, i) + carry) % LimbBase>>
         \o BigAddFrom(a, b, i + 1, (Limb(a, i) + Limb(b, i) + carry) \div LimbBase)

BigAdd(a, b) == BigAddFrom(a, b, 1, 0)

\* a * k for 0 < k < 2^15
RECURSIVE BigMulFrom(_, _, _, _)
BigMulFrom(a, k, i, carry) ==
  IF i > Len(a) THEN (IF carry = 0 THEN << >> ELSE <<carry>>)
  ELSE <<(a[i] * k + carry) % LimbBase>>
         \o BigMulFrom(a, k, i + 1, (a[i] * k + carry) \div LimbBase)

BigMulSmall(a, k) == BigMulFrom(a, k, 1, 0)

\* The limbs i, i + 1, ... of a, as a number modulo d (0 < d < 2^16)
RECURSIVE BigModFrom(_, _, _)
BigModFrom(a, d, i) ==
  IF i > Len(a) THEN 0 ELSE (BigModFrom(a, d, i + 1) * LimbBase + a[i]) % d

BigMod(a, d) == BigModFrom(a, d, 1)

\* floor(a / d) for 0 < d < 2^16
BigDivSmall(a, d) ==
  BigNorm([i \in 1..Len(a) |-> (BigModFrom(a, d, i + 1) * LimbBase + a[i]) \div d])

\* a * 2^s
BigShl(a, s) ==
  IF a = << >> THEN << >>
  ELSE [i \in 1..(s \div LimbBits) |-> 0] \o BigMulSmall(a, 2^(s % LimbBits))

\* floor(a / 2^s)
BigShr(a, s) ==
  IF s \div LimbBits >= Len(a) THEN << >>
  ELSE BigDivSmall(SubSeq(a, (s \div LimbBits) + 1, Len(a)), 2^(s % LimbBits))

RECURSIVE NatLen(_)
NatLen(n) == IF n = 0 THEN 0 ELSE 1 + NatLen(n \div 2)

\* The number of bits of a
BigLen(a) == IF a = << >> THEN 0 ELSE LimbBits * (Len(a) - 1) + NatLen(a[Len(a)])

\* The bit of weight 2^i of a
BigBit(a, i) == (Limb(a, (i \div LimbBits) + 1) \div 2^(i % LimbBits)) % 2

\* The s lowest bits of a are 0.
BigLowZero(a, s) == BigShl(BigShr(a, s), s) = a

Double(m, e) == [t |-> "number", m |-> m, e |-> e]
IsDouble(x) == "m" \in DOMAIN x

\* The double nearest to n * 2^e (plus a positive amount below 2^e when inexact),
\* ties to the even significand.
RoundToDouble(n, e, inexact) ==
  IF n = << >> THEN Double(<< >>, 0)
  ELSE IF BigLen(n) <= SignificandBits
  THEN Double(BigShl(n, SignificandBits - BigLen(n)), e - (SignificandBits - BigLen(n)))
  ELSE LET drop == BigLen(n) - SignificandBits
           q == BigShr(n, drop)
           up == /\ BigBit(n, drop - 1) = 1
                 /\ (inexact \/ ~BigLowZero(n, drop - 1) \/ BigBit(q, 0) = 1)
           r == IF up THEN BigAdd(q, <<1>>) ELSE q
       IN IF BigLen(r) > SignificandBits THEN Double(BigShr(r, 1), e + drop + 1)
          ELSE Double(r, e + drop)

\* The double that a decimal literal or a division of two integers gives for
\* the fraction x (0 <= x.n < 2^31, 0 < x.d < 2^16); NaN and Infinity are kept.
ToDouble(x) ==
  IF x.d = 0 THEN x
  ELSE RoundToDouble(BigDivSmall(BigShl(BigFromNat(x.n), 80), x.d), 0 - 80,
                     BigMod(BigShl(BigFromNat(x.n), 80), x.d) # 0)

\* a + b on finite doubles that are not negative: the exact sum, rounded once.
DoubleAdd(a, b) ==
  IF a.m = << >> THEN b
  ELSE IF b.m = << >> THEN a
  ELSE LET hi == IF a.e >= b.e THEN a ELSE b
           lo == IF a.e >= b.e THEN b ELSE a
       IN IF hi.e - lo.e > 60 THEN hi
          ELSE RoundToDouble(BigAdd(BigShl(hi.m, hi.e - lo.e), lo.m), lo.e, FALSE)

\* a + b on numbers: doubles are added as doubles; on exact fractions NaN is
\* absorbing, then Infinity.
NumAdd(a, b) ==
  IF IsDouble(a) /\ IsDouble(b) THEN DoubleAdd(a, b)
  ELSE IF IsNaN(a) \/ IsNaN(b) THEN NaN
  ELSE IF a.d = 0 \/ b.d = 0 THEN Infinity
  ELSE Num(a.n * b.d + b.n * a.d, a.d * b.d)

\* ToBoolean(x)
Truthy(x) ==
  CASE x.t = "null" -> FALSE
    [] x.t = "undefined" -> FALSE
    [] x.t = "string" -> x.s # << >>
    [] x.t = "number" -> ~IsNaN(x) /\ x.n # 0
    [] OTHER -> TRUE

\* String(x) for the values a unit can take.
JsString(x) ==
  CASE x.t = "string" -> x.s
    [] x.t = "function" ->
         <<"f", "u", "n", "c", "t", "i", "o", "n", " ", "O", "b", "j", "e", "c", "t", "(", ")", " ", "{", " ", "[", "n", "a", "t", "i", "v", "e", " ", "c", "o", "d", "e", "]", " ", "}">>
    [] x.t = "object" -> <<"[", "o", "b", "j", "e", "c", "t", " ", "O", "b", "j", "e", "c", "t", "]">>
    [] x.t = "null" -> <<"n", "u", "l", "l">>
    [] OTHER -> <<"u", "n", "d", "e", "f", "i", "n", "e", "d">>

---------------------------------------------------------------------------
(* Evaluation helpers *)

\* F(x), F(x, y): the arguments are evaluated once and F is applied to their
\* values (TLC evaluates a definition of a LET, and an argument of an operator,
\* again at each of its uses, which is exponential in the depth of a recursion).
Apply1(x, F(_)) == CHOOSE r \in {F(v) : v \in {x}} : TRUE
Apply2(x, y, F(_, _)) == CHOOSE r \in {F(v, w) : v \in {x}, w \in {y}} : TRUE

---------------------------------------------------------------------------
(* Characters and strings *)

Digits == <<"0", "1", "2", "3", "4", "5", "6", "7", "8", "9">>
UpperCase == <<"A", "B", "C", "D", "E", "F", "G", "H", "I", "J", "K", "L", "M",
               "N", "O", "P", "Q", "R", "S", "T", "U", "V", "W", "X", "Y", "Z">>
LowerCase == <<"a", "b", "c", "d", "e", "f", "g", "h", "i", "j", "k", "l", "m",
               "n", "o", "p", "q", "r", "s", "t", "u", "v", "w", "x", "y", "z">>

Range(f) == {f[i] : i \in DOMAIN f}
IndexOf(f, c) == CHOOSE i \in DOMAIN f : f[i] = c

DigitChars == Range(Digits)
UpperChars == Range(UpperCase)
LowerChars == Range(LowerCase)
WordChars == DigitChars \cup UpperChars \cup LowerChars \cup {"_"}
SpaceChars == {" ", "\t", "\n"}

\* \d, \s and \w of the regular expressions
IsDigit(c) == c \in DigitChars
IsSpace(c) == c \in SpaceChars
IsWord(c) == c \in WordChars

\* The letters as functions of their other case.
ToLower == [c \in UpperChars |-> LowerCase[IndexOf(UpperCase, c)]]
ToUpper == [c \in LowerChars |-> UpperCase[IndexOf(LowerCase, c)]]

DigitValue(c) == IndexOf(Digits, c) - 1
LowerChar(c) == IF c \in UpperChars THEN ToLower[c] ELSE c
UpperChar(c) == IF c \in LowerChars THEN ToUpper[c] ELSE c

\* String.prototype.toLowerCase / toUpperCase
ToLowerCase(s) == [i \in 1..Len(s) |-> LowerChar(s[i])]
ToUpperCase(s) == [i \in 1..Len(s) |-> UpperChar(s[i])]

\* s.substring(k): the characters after the first k
Substring(s, k) == SubSeq(s, k + 1, Len(s))

\* String.prototype.trim
Trim(s) ==
  LET kept == {i \in 1..Len(s) : ~IsSpace(s[i])}
  IN IF kept = {} THEN << >>
     ELSE SubSeq(s, CHOOSE i \in kept : \A j \in kept : i <= j,
                    CHOOSE i \in kept : \A j \in kept : j <= i)

\* String.prototype.includes
Includes(s, k) ==
  \E i \in 1..(Len(s) - Len(k) + 1) : s[i] = k[1] /\ SubSeq(s, i, i + Len(k) - 1) = k

\* Length of the longest run of characters of class P(_) starting at position i of s.
RunLength(P(_), s, i) ==
  LET stops == {j \in i..Len(s) : ~P(s[j])}
  IN IF stops = {} THEN (IF i > Len(s) THEN 0 ELSE Len(s) - i + 1)
     ELSE (CHOOSE j \in stops : \A k \in stops : j <= k) - i

CharAt(s, i) == IF i \in 1..Len(s) THEN s[i] ELSE ""

\* parseInt of a non-empty run of digits
RECURSIVE ParseInt(_)
ParseInt(ds) ==
  IF ds = << >> THEN 0
  ELSE 10 * ParseInt(SubSeq(ds, 1, Len(ds) - 1)) + DigitValue(ds[Len(ds)])

RECURSIVE Pow10(_)
Pow10(k) == IF k = 0 THEN 1 ELSE 10 * Pow10(k - 1)

\* parseFloat on the strings of this alphabet: the longest prefix of the form
\* digits, digits.digits, digits. or .digits; NaN when there is none.
ParseFloat(s) ==
  LET ip == RunLength(IsDigit, s, 1)
      fp == IF CharAt(s, ip + 1) = "." THEN RunLength(IsDigit, s, ip + 2) ELSE 0
  IN IF ip = 0 /\ fp = 0 THEN NaN
     ELSE Num(ParseInt(SubSeq(s, 1, ip)) * Pow10(fp) + ParseInt(SubSeq(s, ip + 2, ip + 1 + fp)),
              Pow10(fp))

---------------------------------------------------------------------------
(* IngredientProcessor: the tables of the constructor *)

\* this.unitMap, own properties in source order: << key, canonical form >>
unitMap ==
  <<
    << <<"t", "b", "s", "p">>, <<"t", "a", "b", "l", "e", "s", "p", "o", "o", "n">> >>,
    << <<"t", "a", "b", "l", "e", "s", "p", "o", "o", "n", "s">>, <<"t", "a", "b", "l", "e", "s", "p", "o", "o", "n">> >>,
    << <<"t", "s", "p">>, <<"t", "e", "a", "s", "p", "o", "o", "n">> >>,
    << <<"t", "e", "a", "s", "p", "o", "o", "n", "s">>, <<"t", "e", "a", "s", "p", "o", "o", "n">> >>,
    << <<"c", "u", "p">>, <<"c", "u", "p">> >>,
    << <<"c", "u", "p", "s">>, <<"c", "u", "p">> >>,
    << <<"p", "t">>, <<"p", "i", "n", "t">> >>,
    << <<"p", "i", "n", "t">>, <<"p", "i", "n", "t">> >>,
    << <<"p", "i", "n", "t", "s">>, <<"p", "i", "n", "t">> >>,
    << <<"q", "t">>, <<"q", "u", "a", "r", "t">> >>,
    << <<"q", "u", "a", "r", "t">>, <<"q", "u", "a", "r", "t">> >>,
    << <<"q", "u", "a", "r", "t", "s">>, <<"q", "u", "a", "r", "t">> >>,
    << <<"g", "a", "l">>, <<"g", "a", "l", "l", "o", "n">> >>,
    << <<"g", "a", "l", "l", "o", "n">>, <<"g", "a", "l", "l", "o", "n">> >>,
    << <<"g", "a", "l", "l", "o", "n", "s">>, <<"g", "a", "l", "l", "o", "n">> >>,
    << <<"o", "z">>, <<"o", "u", "n", "c", "e">> >>,
    << <<"o", "u", "n", "c", "e">>, <<"o", "u", "n", "c", "e">> >>,
    << <<"o", "u", "n", "c", "e", "s">>, <<"o", "u", "n", "c", "e">> >>,
    << <<"l", "b">>, <<"p", "o", "u", "n", "d">> >>,
    << <<"l", "b", "s">>, <<"p", "o", "u", "n", "d">> >>,
    << <<"p", "o", "u", "n", "d">>, <<"p", "o", "u", "n", "d">> >>,
    << <<"p", "o", "u", "n", "d", "s">>, <<"p", "o", "u", "n", "d">> >>,
    << <<"i", "n">>, <<"i", "n", "c", "h">> >>,
    << <<"i", "n", "c", "h">>, <<"i", "n", "c", "h">> >>,
    << <<"i", "n", "c", "h", "e", "s">>, <<"i", "n", "c", "h">> >>
  >>

\* this.categoryMap in Object.entries order: << category, keywords >>
categoryMap ==
  <<
    <<"meat", <<
      <<"b", "e", "e", "f">>,
      <<"p", "o", "r", "k">>,
      <<"c", "h", "i", "c", "k", "e", "n">>,
      <<"t", "u", "r", "k", "e", "y">>,
      <<"l", "a", "m", "b">>,
      <<"f", "i", "s", "h">>,
      <<"s", "a", "l", "m", "o", "n">>,
      <<"t", "u", "n", "a">>,
      <<"s", "h", "r", "i", "m", "p">>,
      <<"b", "r", "i", "s", "k", "e", "t">>,
      <<"r", "i", "b", "s">>,
      <<"s", "t", "e", "a", "k">>,
      <<"g", "r", "o", "u", "n", "d", " ", "b", "e", "e", "f">>,
      <<"g", "r", "o", "u", "n", "d", " ", "p", "o", "r", "k">>,
      <<"b", "a", "c", "o", "n">>,
      <<"s", "a", "u", "s", "a", "g", "e">>
    >> >>,
    <<"vegetables", <<
      <<"o", "n", "i", "o", "n">>,
      <<"o", "n", "i", "o", "n", "s">>,
      <<"c", "a", "r", "r", "o", "t">>,
      <<"c", "a", "r", "r", "o", "t", "s">>,
      <<"c", "e", "l", "e", "r", "y">>,
      <<"b", "e", "l", "l", " ", "p", "e", "p", "p", "e", "r">>,
      <<"p", "e", "p", "p", "e", "r", "s">>,
      <<"m", "u", "s", "h", "r", "o", "o", "m">>,
      <<"m", "u", "s", "h", "r", "o", "o", "m", "s">>,
      <<"t", "o", "m", "a", "t", "o">>,
      <<"t", "o", "m", "a", "t", "o", "e", "s">>,
      <<"p", "o", "t", "a", "t", "o">>,
      <<"p", "o", "t", "a", "t", "o", "e", "s">>,
      <<"g", "i", "n", "g", "e", "r">>,
      <<"j", "a", "l", "a", "p", "e", "n~", "o">>,
      <<"j", "a", "l", "a", "p", "e", "n~", "o", "s">>
    >> >>,
    <<"spices", <<
      <<"s", "a", "l", "t">>,
      <<"p", "e", "p", "p", "e", "r">>,
      <<"p", "a", "p", "r", "i", "k", "a">>,
      <<"c", "u", "m", "i", "n">>,
      <<"c", "h", "i", "l", "i", " ", "p", "o", "w", "d", "e", "r">>,
      <<"g", "a", "r", "l", "i", "c", " ", "p", "o", "w", "d", "e", "r">>,
      <<"o", "n", "i", "o", "n", " ", "p", "o", "w", "d", "e", "r">>,
      <<"o", "r", "e", "g", "a", "n", "o">>,
      <<"t", "h", "y", "m", "e">>,
      <<"r", "o", "s", "e", "m", "a", "r", "y">>,
      <<"b", "a", "y", " ", "l", "e", "a", "v", "e", "s">>,
      <<"c", "a", "y", "e", "n", "n", "e">>,
      <<"b", "l", "a", "c", "k", " ", "p", "e", "p", "p", "e", "r">>,
      <<"w", "h", "i", "t", "e", " ", "p", "e", "p", "p", "e", "r">>,
      <<"r", "e", "d", " ", "p", "e", "p", "p", "e", "r", " ", "f", "l", "a", "k", "e", "s">>,
      <<"v", "a", "n", "i", "l", "l", "a">>
    >> >>,
    <<"dairy", <<
      <<"m", "i", "l", "k">>,
      <<"b", "u", "t", "t", "e", "r">>,
      <<"c", "h", "e", "e", "s", "e">>,
      <<"c", "r", "e", "a", "m">>,
      <<"y", "o", "g", "u", "r", "t">>,
      <<"s", "o", "u", "r", " ", "c", "r", "e", "a", "m">>,
      <<"c", "r", "e", "a", "m", " ", "c", "h", "e", "e", "s", "e">>
    >> >>,
    <<"pantry", <<
      <<"f", "l", "o", "u", "r">>,
      <<"s", "u", "g", "a", "r">>,
      <<"b", "r", "o", "w", "n", " ", "s", "u", "g", "a", "r">>,
      <<"h", "o", "n", "e", "y">>,
      <<"o", "i", "l">>,
      <<"o", "l", "i", "v", "e", " ", "o", "i", "l">>,
      <<"v", "i", "n", "e", "g", "a", "r">>,
      <<"s", "o", "y", " ", "s", "a", "u", "c", "e">>,
      <<"w", "o", "r", "c", "e", "s", "t", "e", "r", "s", "h", "i", "r", "e">>,
      <<"k", "e", "t", "c", "h", "u", "p">>,
      <<"m", "u", "s", "t", "a", "r", "d">>,
      <<"b", "b", "q", " ", "s", "a", "u", "c", "e">>,
      <<"s", "a", "u", "c", "e">>
    >> >>
  >>

\* this.unitMap[k]: an own property, else a property inherited from
\* Object.prototype.  Of the inherited names only 'constructor' and '__proto__'
\* can be spelled with the characters \w of a lower-cased token.
UnitMapGet(k) ==
  LET own == {i \in DOMAIN unitMap : unitMap[i][1] = k}
  IN IF own # {} THEN Str(unitMap[CHOOSE i \in own : TRUE][2])
     ELSE IF k = <<"c", "o", "n", "s", "t", "r", "u", "c", "t", "o", "r">> THEN ObjectFunction
     ELSE IF k = <<"_", "_", "p", "r", "o", "t", "o", "_", "_">> THEN ObjectPrototype
     ELSE Undefined

---------------------------------------------------------------------------
(* IngredientProcessor.parseFraction *)

\* str.match(/^(\d+)\s+(\d+)\/(\d+)$/): << whole, numerator, denominator >> or << >>
MixedMatch(str) ==
  LET w == RunLength(IsDigit, str, 1)
      sp == RunLength(IsSpace, str, w + 1)
      n == RunLength(IsDigit, str, w + sp + 1)
      d == RunLength(IsDigit, str, w + sp + n + 2)
  IN IF w > 0 /\ sp > 0 /\ n > 0 /\ CharAt(str, w + sp + n + 1) = "/" /\ d > 0
        /\ w + sp + n + 1 + d = Len(str)
     THEN <<SubSeq(str, 1, w), SubSeq(str, w + sp + 1, w + sp + n),
            SubSeq(str, w + sp + n + 2, Len(str))>>
     ELSE << >>

\* str.match(/^(\d+)\/(\d+)$/): << numerator, denominator >> or << >>
FractionMatch(str) ==
  LET n == RunLength(IsDigit, str, 1)
      d == RunLength(IsDigit, str, n + 2)
  IN IF n > 0 /\ CharAt(str, n + 1) = "/" /\ d > 0 /\ n + 1 + d = Len(str)
     THEN <<SubSeq(str, 1, n), SubSeq(str, n + 2, Len(str))>>
     ELSE << >>

\* numerator / denominator, then whole + that (division by zero gives Infinity or NaN)
MixedValue(whole, numerator, denominator) ==
  NumAdd(Num(whole, 1), Num(numerator, denominator))

parseFraction(fractionStr) ==
  IF fractionStr = << >> THEN JsNull
  ELSE LET str == Trim(fractionStr)
           mixedMatch == MixedMatch(str)
           fractionMatch == FractionMatch(str)
           number == ParseFloat(str)
       IN IF mixedMatch # << >>
          THEN MixedValue(ParseInt(mixedMatch[1]), ParseInt(mixedMatch[2]), ParseInt(mixedMatch[3]))
          ELSE IF fractionMatch # << >>
          THEN Num(ParseInt(fractionMatch[1]), ParseInt(fractionMatch[2]))
          ELSE IF IsNaN(number) THEN JsNull ELSE number

---------------------------------------------------------------------------
(* IngredientProcessor.normalizeUnit, categorizeIngredient, parseIngredient *)

normalizeUnit(unit) ==
  IF unit = << >> THEN JsNull
  ELSE LET normalized == UnitMapGet(ToLowerCase(unit))
       IN IF Truthy(normalized) THEN normalized ELSE Str(unit)

\* Mutant: the text is not lower-cased before the keywords are looked for.
categorizeIngredient_CaseSensitive(item) ==
  IF item = << >> THEN "pantry"
  ELSE LET hits == {c \in DOMAIN categoryMap :
                      \E j \in DOMAIN categoryMap[c][2] : Includes(item, categoryMap[c][2][j])}
       IN IF hits = {} THEN "pantry"
          ELSE categoryMap[CHOOSE c \in hits : \A h \in hits : c <= h][1]

categorizeIngredient(item) ==
  IF item = << >> THEN "pantry"
  ELSE Apply1(ToLowerCase(item),
              LAMBDA lowerItem :
                LET hits == {c \in DOMAIN categoryMap :
                               \E j \in DOMAIN categoryMap[c][2] :
                                 Includes(lowerItem, categoryMap[c][2][j])}
                IN IF hits = {} THEN "pantry"
                   ELSE categoryMap[CHOOSE c \in hits : \A h \in hits : c <= h][1])

\* Length of remaining.match(/^(\d+(?:\s+\d+\/\d+|\.\d+|\/\d+)?)/)[0], 0 when there is no match.
QuantityMatch(remaining) ==
  LET w == RunLength(IsDigit, remaining, 1)
      sp == RunLength(IsSpace, remaining, w + 1)
      n == RunLength(IsDigit, remaining, w + sp + 1)
      d == RunLength(IsDigit, remaining, w + sp + n + 2)
      fr == RunLength(IsDigit, remaining, w + 2)
  IN IF w = 0 THEN 0
     ELSE IF sp > 0 /\ n > 0 /\ CharAt(remaining, w + sp + n + 1) = "/" /\ d > 0
     THEN w + sp + n + 1 + d
     ELSE IF CharAt(remaining, w + 1) \in {".", "/"} /\ fr > 0 THEN w + 1 + fr
     ELSE w

\* Length of remaining.match(/^(\w+)/)[0], 0 when there is no match.
UnitMatch(remaining) == RunLength(IsWord, remaining, 1)

\* Mutant: the guard trims before it tests, so a blank string is rejected too.
RejectsInput_Trimmed(text) == text.t # "string" \/ Trim(text.s) = << >>

\* The guard of the first line: !ingredientText || typeof ingredientText !== 'string'
RejectsInput(text) == ~Truthy(text) \/ text.t # "string"

\* Mutant: the unit is looked for whether or not a quantity was found.
TakesUnit_NoQuantityCheck(unitLen, quantity, potentialUnit) ==
  unitLen > 0 /\ Truthy(UnitMapGet(ToLowerCase(potentialUnit)))

\* unitMatch && quantity !== null, and the token is a property of the unit map
TakesUnit(unitLen, quantity, potentialUnit) ==
  unitLen > 0 /\ quantity # JsNull /\ Truthy(UnitMapGet(ToLowerCase(potentialUnit)))

\* const item = remaining || original
ItemOf(remaining, original) == IF remaining # << >> THEN remaining ELSE original

\* The quantity step: << quantity, remaining >> from the lower-cased text.
ExtractQuantity(lowered) ==
  LET qLen == QuantityMatch(lowered)
  IN IF qLen > 0
     THEN <<parseFraction(SubSeq(lowered, 1, qLen)), Trim(Substring(lowered, qLen))>>
     ELSE <<JsNull, lowered>>

\* The unit step: << unit, remaining >> from the quantity and what follows it.
ExtractUnit(quantity, remaining) ==
  LET uLen == UnitMatch(remaining)
      potentialUnit == SubSeq(remaining, 1, uLen)
  IN IF TakesUnit(uLen, quantity, potentialUnit)
     THEN <<normalizeUnit(potentialUnit), Trim(Substring(remaining, uLen))>>
     ELSE <<JsNull, remaining>>

parseIngredient(text) ==
  IF RejectsInput(text) THEN JsNull
  ELSE Apply1(Trim(text.s),
         LAMBDA original :
           Apply1(ExtractQuantity(ToLowerCase(original)),
             LAMBDA q :
               Apply1(ExtractUnit(q[1], q[2]),
                 LAMBDA u :
                   Apply1(ItemOf(u[2], original),
                     LAMBDA item :
                       [quantity |-> q[1], unit |-> u[1], item |-> item,
                        originalText |-> original,
                        category |-> categorizeIngredient(item)]))))

---------------------------------------------------------------------------
(* Inputs of parseIngredient *)

\* Largest number of spaces put around a line and between its parts.
MaxPad == 1

Spaces(k) == [i \in 1..k |-> " "]
Capitalize(s) == IF s = << >> THEN s ELSE <<UpperChar(s[1])>> \o Substring(s, 1)
CaseVariants(s) == {s, ToUpperCase(s), Capitalize(s)}

\* Numeric prefixes: none, integer, zero, decimal, fraction, mixed number,
\* and fractions with a zero numerator or denominator.
QuantityTexts ==
  { << >>, <<"2">>, <<"0">>, <<"1", "2">>, <<"2", ".", "5">>, <<"1", "/", "2">>,
    <<"3", "/", "4">>, <<"1", " ", "1", "/", "2">>, <<"1", "/", "0">>,
    <<"0", "/", "0">>, <<"0", "/", "3">>, <<"2", " ", "0", "/", "0">> }

\* Tokens after the quantity: none, every key of the unit map, the two canonical
\* forms that are not keys, and words that are no unit.
TokenTexts ==
  { << >>,
    <<"t", "a", "b", "l", "e", "s", "p", "o", "o", "n">>,
    <<"t", "e", "a", "s", "p", "o", "o", "n">>,
    <<"e", "g", "g", "s">>,
    <<"c", "u", "p", "f", "u", "l">>,
    <<"c", "o", "n", "s", "t", "r", "u", "c", "t", "o", "r">>,
    <<"_", "_", "p", "r", "o", "t", "o", "_", "_">> }
  \cup {unitMap[i][1] : i \in DOMAIN unitMap}

ItemTexts ==
  { << >>, <<"f", "l", "o", "u", "r">>,
    <<"B", "r", "o", "w", "n", " ", "S", "u", "g", "a", "r">> }

LineTexts ==
  { Spaces(a) \o q \o Spaces(b) \o v \o Spaces(c) \o it \o Spaces(a) :
      a \in 0..MaxPad, b \in 0..MaxPad, c \in 0..MaxPad,
      q \in QuantityTexts, v \in UNION {CaseVariants(k) : k \in TokenTexts}, it \in ItemTexts }

\* Arguments of parseIngredient: strings, and the absent and non-string values.
ParseInputs == {Str(s) : s \in LineTexts} \cup {JsNull, Undefined, Num(42, 1)}

---------------------------------------------------------------------------
(* The call of parseIngredient *)

InitParse ==
  /\ pc = "ready"
  /\ ingredientText \in ParseInputs
  /\ parsed = JsNull
  /\ IdleBut("parse")

ParseIngredient ==
  /\ pc = "ready"
  /\ parsed' = parseIngredient(ingredientText)
  /\ pc' = "done"
  /\ UNCHANGED ingredientText
  /\ UnchangedBut("parse")

NextParse == ParseIngredient

SpecParse == InitParse /\ [][NextParse]_vars

---------------------------------------------------------------------------
(* IngredientProcessor.consolidateIngredients *)

\* if (!ingredient || !ingredient.item) return
SkipsIngredient(ingredient) == ingredient \in {JsNull, Undefined} \/ ingredient.item = << >>

\* Mutant: the key leaves the unit out.
ConsolidateKey_ItemOnly(ingredient) == ingredient.item

\* `${ingredient.item}-${ingredient.unit || 'no-unit'}`
ConsolidateKey(ingredient) ==
  ingredient.item \o <<"-">> \o
    (IF Truthy(ingredient.unit) THEN JsString(ingredient.unit)
     ELSE <<"n", "o", "-", "u", "n", "i", "t">>)

\* existing.quantity !== null && ingredient.quantity !== null
BothHaveQuantity(existing, ingredient) ==
  existing.quantity # JsNull /\ ingredient.quantity # JsNull

\* obj.field = value, on an object that may not have the field yet
SetField(obj, field, value) ==
  [f \in DOMAIN obj \cup {field} |-> IF f = field THEN value ELSE obj[f]]

\* Mutant: = in place of +=.
MergeInto_Assign(existing, ingredient) ==
  IF BothHaveQuantity(existing, ingredient)
  THEN SetField(SetField(existing, "quantity", ingredient.quantity), "consolidated", TRUE)
  ELSE existing

\* Mutant: consolidated is set whether or not the quantities were summed.
MergeInto_FlagAlways(existing, ingredient) ==
  SetField(IF BothHaveQuantity(existing, ingredient)
           THEN SetField(existing, "quantity", NumAdd(existing.quantity, ingredient.quantity))
           ELSE existing,
           "consolidated", TRUE)

\* The entry found under the key, after one more ingredient with that key:
\* existing.quantity += ingredient.quantity; existing.consolidated = true
MergeInto(existing, ingredient) ==
  IF BothHaveQuantity(existing, ingredient)
  THEN SetField(SetField(existing, "quantity", NumAdd(existing.quantity, ingredient.quantity)),
                "consolidated", TRUE)
  ELSE existing

\* One turn of the forEach on the Map, kept as its entries in insertion order.
ConsolidateOne(entries, ingredient) ==
  IF SkipsIngredient(ingredient) THEN entries
  ELSE LET key == ConsolidateKey(ingredient)
           at == {i \in DOMAIN entries : entries[i].key = key}
       IN IF at # {}
          THEN LET i == CHOOSE i \in at : TRUE
               IN [entries EXCEPT ![i].value = MergeInto(@, ingredient)]
          ELSE Append(entries, [key |-> key, value |-> ingredient])

RECURSIVE ConsolidateLoop(_, _)
ConsolidateLoop(entries, rest) ==
  Apply2(entries, rest,
         LAMBDA es, rs :
           IF rs = << >> THEN es
           ELSE ConsolidateLoop(Apply2(es, Head(rs), ConsolidateOne), Tail(rs)))

\* Array.from(consolidated.values()); the argument is an array in every call modelled.
consolidateIngredients(ingredientList) ==
  Apply1(ConsolidateLoop(<< >>, ingredientList),
         LAMBDA entries : [i \in DOMAIN entries |-> entries[i].value])

---------------------------------------------------------------------------
(* Inputs of consolidateIngredients: records the parser returns, and null *)

\* Largest number of entries of the array given to consolidateIngredients.
MaxIngredients == 3

ConsolidateLines ==
  {
    <<"1", " ", "c", "u", "p", " ", "m", "i", "l", "k">>,
    <<"1", "/", "2", " ", "c", "u", "p", "s", " ", "m", "i", "l", "k">>,
    <<"2", " ", "m", "i", "l", "k">>,
    <<"3", " ", "M", "i", "l", "k">>,
    <<"m", "i", "l", "k">>,
    <<"8", " ", "o", "z", " ", "m", "i", "l", "k">>,
    <<"1", " ", "t", "s", "p", " ", "s", "a", "l", "t">>,
    <<"s", "a", "l", "t">>,
    <<"2", " ", "c", "o", "n", "s", "t", "r", "u", "c", "t", "o", "r", " ", "m", "i", "l", "k">>,
    <<" ">>
  }

IngredientEntries == {parseIngredient(Str(l)) : l \in ConsolidateLines} \cup {JsNull}

ConsolidateInputs == UNION {[1..n -> IngredientEntries] : n \in 0..MaxIngredients}

InitConsolidate ==
  /\ pc = "ready"
  /\ ingredients \in ConsolidateInputs
  /\ consolidated = << >>
  /\ IdleBut("consolidate")

ConsolidateIngredients ==
  /\ pc = "ready"
  /\ consolidated' = consolidateIngredients(ingredients)
  /\ pc' = "done"
  /\ UNCHANGED ingredients
  /\ UnchangedBut("consolidate")

NextConsolidate == ConsolidateIngredients

SpecConsolidate == InitConsolidate /\ [][NextConsolidate]_vars

---------------------------------------------------------------------------
(* ShoppingListGenerator *)

Arr(a) == [t |-> "array", a |-> a]

\* s without its null elements: .filter(ingredient => ingredient !== null)
RECURSIVE FilterNotNull(_)
FilterNotNull(s) ==
  Apply1(s, LAMBDA a :
              IF a = << >> THEN << >>
              ELSE (IF Head(a) = JsNull THEN << >> ELSE <<Head(a)>>) \o FilterNotNull(Tail(a)))

\* recipe.ingredients.map(parseIngredient).filter(not null)
ProcessIngredients(lines) == FilterNotNull([i \in DOMAIN lines |-> parseIngredient(lines[i])])

\* The object built by organizeByCategory, as its << category, items >> entries in
\* the order in which the keys were created.
\* One turn of the forEach of organizeByCategory.
OrganizeOne(organized, item) ==
  LET category == item.category
      at == {i \in DOMAIN organized : organized[i][1] = category}
  IN IF at = {} THEN Append(organized, <<category, <<item>> >>)
     ELSE [organized EXCEPT ![CHOOSE i \in at : TRUE][2] = Append(@, item)]

RECURSIVE OrganizeLoop(_, _)
OrganizeLoop(organized, rest) ==
  Apply2(organized, rest,
         LAMBDA org, rs :
           IF rs = << >> THEN org
           ELSE OrganizeLoop(Apply2(org, Head(rs), OrganizeOne), Tail(rs)))

organizeByCategory(items) == OrganizeLoop(<< >>, items)

\* createdAt is the time of the call; its value is not modelled.
createShoppingListObject(items, title, recipeIds) ==
  Apply1(items,
         LAMBDA its :
           [title |-> title, items |-> its, organized |-> organizeByCategory(its),
            recipes |-> recipeIds, itemCount |-> Len(its), createdAt |-> "new Date()"])

Failure(error) == [success |-> FALSE, error |-> error]
Success(shoppingList) == [success |-> TRUE, shoppingList |-> shoppingList]

\* Mutant: a recipe without an ingredients array still gets its id listed.
SkipsRecipe_Never(recipe) == recipe = JsNull

\* !recipe || !recipe.ingredients || !Array.isArray(recipe.ingredients)
SkipsRecipe(recipe) ==
  recipe = JsNull \/ ~Truthy(recipe.ingredients) \/ recipe.ingredients.t # "array"

\* One turn of the for loop on << allIngredients, recipeIds >>.
CollectOne(collected, recipe) ==
  IF SkipsRecipe(recipe) THEN collected
  ELSE <<collected[1] \o
           (IF recipe.ingredients.t = "array"
            THEN ProcessIngredients(recipe.ingredients.a) ELSE << >>),
         Append(collected[2], recipe.id)>>

RECURSIVE CollectLoop(_, _)
CollectLoop(collected, rest) ==
  Apply2(collected, rest,
         LAMBDA col, rs :
           IF rs = << >> THEN col
           ELSE CollectLoop(Apply2(col, Head(rs), CollectOne), Tail(rs)))

DefaultTitle ==
  <<"C", "o", "m", "b", "i", "n", "e", "d", " ", "R", "e", "c", "i", "p", "e", "s", " ", "-", " ", "S", "h", "o", "p", "p", "i", "n", "g", " ", "L", "i", "s", "t">>

\* Mutant: the flattened ingredients are put in the list without consolidation.
ConsolidateAll_Skipped(allIngredients) == allIngredients

\* const consolidatedIngredients = this.processor.consolidateIngredients(allIngredients)
ConsolidateAll(allIngredients) == consolidateIngredients(allIngredients)

\* The argument is an array in every call modelled; nothing in the try block throws.
generateFromMultipleRecipes(recipeList, customTitle) ==
  IF Len(recipeList) = 0 THEN Failure("No recipes provided")
  ELSE Apply1(CollectLoop(<<(<< >>), (<< >>)>>, recipeList),
              LAMBDA collected :
                IF Len(collected[1]) = 0 THEN Failure("No valid ingredients found in recipes")
                ELSE Success(createShoppingListObject(
                               ConsolidateAll(collected[1]),
                               IF Truthy(customTitle) THEN customTitle.s ELSE DefaultTitle,
                               collected[2])))

---------------------------------------------------------------------------
(* Inputs of generateFromMultipleRecipes *)

\* Largest number of recipes in a call, and of lines in a recipe's ingredients.
MaxRecipes == 2
MaxLines == 2

\* Two lines that parse to the same item under the same unit, spelled differently.
RecipeLines ==
  {
    Str(<<"1", "/", "2", " ", "c", "u", "p", " ", "b", "r", "o", "w", "n", " ", "s", "u", "g", "a", "r">>),
    Str(<<"1", "/", "4", " ", "C", "U", "P", "S", " ", "B", "r", "o", "w", "n", " ", "S", "u", "g", "a", "r">>)
  }

\* The ingredients field: missing, null, not an array, an array holding a
\* non-string, an array holding a blank line, an array with a line of another
\* item, and the arrays of up to MaxLines of the two lines above.
IngredientsFields ==
  {Undefined, JsNull, Str(<<"n", "/", "a">>), Arr(<<JsNull>>), Arr(<<Str(<<" ">>)>>),
   Arr(<<Str(<<"1", " ", "t", "s", "p", " ", "s", "a", "l", "t">>)>>)}
    \cup {Arr(a) : a \in UNION {[1..n -> RecipeLines] : n \in 0..MaxLines}}

RecipeId(i) == Str(<<"r", "e", "c", "i", "p", "e", "-">> \o <<Digits[i + 1]>>)

\* Arrays of up to MaxRecipes recipes; the recipe at position i has the id recipe-i.
RecipeInputs ==
  { [i \in 1..n |-> [id |-> RecipeId(i), title |-> Str(<<"B", "B", "Q">>), ingredients |-> f[i]]] :
      n \in 0..MaxRecipes, f \in [1..MaxRecipes -> IngredientsFields] }

CustomTitles == {JsNull, Str(<<"P", "a", "r", "t", "y">>)}

InitGenerate ==
  /\ pc = "ready"
  /\ recipes \in RecipeInputs
  /\ listResult = JsNull
  /\ IdleBut("generate")

GenerateFromMultipleRecipes ==
  /\ pc = "ready"
  /\ \E customTitle \in CustomTitles :
       listResult' = generateFromMultipleRecipes(recipes, customTitle)
  /\ pc' = "done"
  /\ UNCHANGED recipes
  /\ UnchangedBut("generate")

NextGenerate == GenerateFromMultipleRecipes

SpecGenerate == InitGenerate /\ [][NextGenerate]_vars

---------------------------------------------------------------------------
(* IngredientProcessor.categorizeIngredient called on its own *)

\* Words of the item texts: keywords of each category, keywords that contain a
\* keyword of another category, and words that are no keyword.
ItemWords ==
  { <<"b", "e", "e", "f">>, <<"c", "h", "i", "c", "k", "e", "n">>, <<"b", "e", "l", "l", " ", "p", "e", "p", "p", "e", "r">>, <<"g", "r", "e", "e", "n", " ", "o", "n", "i", "o", "n", "s">>,
    <<"p", "e", "p", "p", "e", "r">>, <<"b", "l", "a", "c", "k", " ", "p", "e", "p", "p", "e", "r">>, <<"o", "n", "i", "o", "n", " ", "p", "o", "w", "d", "e", "r">>, <<"s", "a", "l", "t">>,
    <<"b", "u", "t", "t", "e", "r">>, <<"s", "o", "u", "r", " ", "c", "r", "e", "a", "m">>, <<"f", "l", "o", "u", "r">>, <<"o", "l", "i", "v", "e", " ", "o", "i", "l">>,
    <<"j", "a", "l", "a", "p", "e", "n~", "o", "s">>, <<"u", "n", "k", "n", "o", "w", "n", " ", "i", "n", "g", "r", "e", "d", "i", "e", "n", "t">>, <<"t", "o", "f", "u">> }

\* The empty text, one word, or two words separated by a space, in three letter cases.
CategorizeInputs ==
  {<< >>} \cup
  UNION {CaseVariants(w) : w \in ItemWords} \cup
  UNION {CaseVariants(v \o <<" ">> \o w) : v \in ItemWords, w \in ItemWords}

InitCategorize ==
  /\ pc = "ready"
  /\ itemText \in CategorizeInputs
  /\ itemCategory = JsNull
  /\ IdleBut("categorize")

CategorizeIngredient ==
  /\ pc = "ready"
  /\ itemCategory' = categorizeIngredient(itemText)
  /\ pc' = "done"
  /\ UNCHANGED itemText
  /\ UnchangedBut("categorize")

NextCategorize == CategorizeIngredient

SpecCategorize == InitCategorize /\ [][NextCategorize]_vars

---------------------------------------------------------------------------
(* Numbers: product, comparison with 0, conversion to a string *)

\* a * b for a >= 0 or NaN and b > 0 or NaN (the only products the code forms
\* after its guards): NaN is absorbing, 0 * Infinity is NaN.
NumMul(a, b) ==
  IF IsNaN(a) \/ IsNaN(b) THEN NaN
  ELSE IF a.d = 0 \/ b.d = 0
       THEN (IF a.n = 0 \/ b.n = 0 THEN NaN ELSE Infinity)
       ELSE Num(a.n * b.n, a.d * b.d)

\* x <= 0: false for NaN and for Infinity
NumLE0(x) == x.d # 0 /\ x.n <= 0

\* A finite number with a negative numerator (Num keeps the sign in n).
Neg(n, d) == [t |-> "number", n |-> 0 - Num(n, d).n, d |-> Num(n, d).d]

\* The decimal digits of the natural number n.
RECURSIVE NatToString(_)
NatToString(n) ==
  IF n < 10 THEN <<Digits[n + 1]>>
  ELSE NatToString(n \div 10) \o <<Digits[(n % 10) + 1]>>

\* The digits after the decimal point of r/d (0 <= r < d), for a decimal
\* expansion that ends.
RECURSIVE FractionDigits(_, _)
FractionDigits(r, d) ==
  IF r = 0 THEN << >>
  ELSE <<Digits[((10 * r) \div d) + 1]>> \o FractionDigits((10 * r) % d, d)

\* Only the factors 2 and 5 in d: the decimal expansion of n/d ends.
RECURSIVE Terminates(_)
Terminates(d) ==
  IF d = 1 THEN TRUE
  ELSE IF d % 2 = 0 THEN Terminates(d \div 2)
  ELSE IF d % 5 = 0 THEN Terminates(d \div 5)
  ELSE FALSE

\* Number.prototype.toString, `${x}`: defined here for NaN, Infinity, the
\* integers and the fractions whose decimal expansion ends (for the others the
\* result depends on the rounding of the double, which is not modelled).
NumberToString(x) ==
  CASE IsNaN(x) -> <<"N", "a", "N">>
    [] x.d = 0 /\ x.n # 0 -> <<"I", "n", "f", "i", "n", "i", "t", "y">>
    [] x.d # 0 /\ x.n < 0 /\ Terminates(x.d) ->
         <<"-">> \o NatToString((0 - x.n) \div x.d)
           \o (IF x.d = 1 THEN << >> ELSE <<".">> \o FractionDigits((0 - x.n) % x.d, x.d))
    [] x.d # 0 /\ x.n >= 0 /\ Terminates(x.d) ->
         NatToString(x.n \div x.d)
           \o (IF x.d = 1 THEN << >> ELSE <<".">> \o FractionDigits(x.n % x.d, x.d))

---------------------------------------------------------------------------
(* ShoppingListGenerator.generateFromRecipe *)

\* typeof x === 'object' for the values of the model: a recipe object is a record
\* with the fields id, title and ingredients; null, undefined, strings and numbers
\* are tagged values (a missing field of a recipe holds Undefined).
IsPlainObject(x) == "t" \notin DOMAIN x

ListTitleSuffix == <<" ", "-", " ", "S", "h", "o", "p", "p", "i", "n", "g", " ", "L", "i", "s", "t">>

\* The title is a string in every call modelled; nothing in the try block throws.
generateFromRecipe(recipe) ==
  IF ~IsPlainObject(recipe) THEN Failure("Invalid recipe object")
  ELSE IF ~Truthy(recipe.title) THEN Failure("Recipe must have a title")
  ELSE IF ~Truthy(recipe.ingredients) \/ recipe.ingredients.t # "array"
  THEN Failure("Invalid recipe ingredients")
  ELSE IF Len(recipe.ingredients.a) = 0 THEN Failure("Recipe has no ingredients")
  ELSE Success(createShoppingListObject(ProcessIngredients(recipe.ingredients.a),
                                        JsString(recipe.title) \o ListTitleSuffix,
                                        <<recipe.id>>))

---------------------------------------------------------------------------
(* Objects on the heap.  An address is a position of the sequence heap; 0   *)
(* stands for null.  A shopping list object holds the addresses of its     *)
(* items in items and in organized; an array is a value, since no call     *)
(* writes to an array that it did not create itself.                       *)

\* Addresses of n objects appended to h.
NewRefs(h, n) == [i \in 1..n |-> Len(h) + i]

\* { ...obj, k: v, ... }
Spread(obj, updates) ==
  [f \in DOMAIN obj \cup DOMAIN updates |-> IF f \in DOMAIN updates THEN updates[f] ELSE obj[f]]

\* Mutant: every item is filed under pantry.
organizeRefs_PantryOnly(h, refs) ==
  IF refs = << >> THEN << >> ELSE << <<"pantry", refs>> >>

\* this.generator.organizeByCategory(items) on item objects: the arrays of the
\* result hold the same objects as items.
organizeRefs(h, refs) ==
  Apply1(organizeByCategory([i \in DOMAIN refs |->
                               [category |-> h[refs[i]].category, ref |-> refs[i]]]),
         LAMBDA org :
           [c \in DOMAIN org |->
              <<org[c][1], [j \in DOMAIN org[c][2] |-> org[c][2][j].ref]>>])

\* A list built by the generator (createShoppingListObject): its items are new
\* objects, the list is a new object.
StoreList(h, list) ==
  Apply2(h \o list.items, NewRefs(h, Len(list.items)),
         LAMBDA h1, refs :
           [heap |-> Append(h1, [list EXCEPT !.items = refs,
                                             !.organized = organizeRefs(h1, refs)]),
            ref |-> Len(h1) + 1])

\* The result of a generator call, with the list (if any) put on the heap.
StoreResult(h, result) ==
  IF result.success
  THEN Apply1(StoreList(h, result.shoppingList),
              LAMBDA st : [heap |-> st.heap, result |-> Success(st.ref)])
  ELSE [heap |-> h, result |-> result]

\* !shoppingList || !shoppingList.items (an array, even empty, is truthy)
InvalidList(h, l) == l = 0 \/ "items" \notin DOMAIN h[l]

---------------------------------------------------------------------------
(* ShoppingListManager.scaleQuantities *)

\* typeof multiplier !== 'number' || multiplier <= 0
RejectsMultiplier(multiplier) == multiplier.t # "number" \/ NumLE0(multiplier)

\* Mutant: originalQuantity is not recorded.
ScaleItem_NoOriginal(item, multiplier) ==
  Spread(item, [quantity |-> IF item.quantity # JsNull
                             THEN NumMul(item.quantity, multiplier) ELSE JsNull,
                scaled |-> TRUE])

\* { ...item, quantity: ..., scaled: true, originalQuantity: item.quantity }
ScaleItem(item, multiplier) ==
  Spread(item, [quantity |-> IF item.quantity # JsNull
                             THEN NumMul(item.quantity, multiplier) ELSE JsNull,
                scaled |-> TRUE,
                originalQuantity |-> item.quantity])

ScaledTitle(title, multiplier) ==
  title \o <<" ", "(", "s", "c", "a", "l", "e", "d", " ">> \o NumberToString(multiplier) \o <<"x", ")">>

scaleQuantities(h, l, multiplier) ==
  IF RejectsMultiplier(multiplier)
  THEN [heap |-> h, result |-> Failure("Scale multiplier must be greater than 0")]
  ELSE IF InvalidList(h, l) THEN [heap |-> h, result |-> Failure("Invalid shopping list")]
  ELSE Apply2(h \o [i \in DOMAIN h[l].items |-> ScaleItem(h[h[l].items[i]], multiplier)],
              NewRefs(h, Len(h[l].items)),
              LAMBDA h1, scaledItems :
                [heap |-> Append(h1, Spread(h[l],
                                   [title |-> ScaledTitle(h[l].title, multiplier),
                                    items |-> scaledItems,
                                    organized |-> organizeRefs(h1, scaledItems),
                                    scaleMultiplier |-> multiplier,
                                    scaledAt |-> "new Date()"])),
                 result |-> Success(Len(h1) + 1)])

---------------------------------------------------------------------------
(* ShoppingListManager.filterByCategory *)

\* The name of a category as a string of characters.
CategoryText(name) ==
  CASE name = "meat" -> <<"m", "e", "a", "t">>
    [] name = "vegetables" -> <<"v", "e", "g", "e", "t", "a", "b", "l", "e", "s">>
    [] name = "spices" -> <<"s", "p", "i", "c", "e", "s">>
    [] name = "dairy" -> <<"d", "a", "i", "r", "y">>
    [] name = "pantry" -> <<"p", "a", "n", "t", "r", "y">>

\* Array.prototype.join on an array of strings
RECURSIVE Join(_, _)
Join(a, separator) ==
  IF a = << >> THEN << >>
  ELSE IF Len(a) = 1 THEN a[1].s
  ELSE a[1].s \o separator \o Join(Tail(a), separator)

\* !categories || !Array.isArray(categories) || categories.length === 0
RejectsCategories(categories) ==
  ~Truthy(categories) \/ categories.t # "array" \/ Len(categories.a) = 0

\* Mutant: the items whose category is not listed are kept.
KeepsItem_Complement(item, categories) ==
  ~\E i \in DOMAIN categories.a : categories.a[i] = Str(CategoryText(item.category))

\* categories.includes(item.category)
KeepsItem(item, categories) ==
  \E i \in DOMAIN categories.a : categories.a[i] = Str(CategoryText(item.category))

FilteredTitle(title, categories) ==
  title \o <<" ", "(">> \o Join(categories.a, <<",", " ">>) \o <<")">>

filterByCategory(h, l, categories) ==
  IF RejectsCategories(categories)
  THEN [heap |-> h, result |-> Failure("No categories specified")]
  ELSE IF InvalidList(h, l) THEN [heap |-> h, result |-> Failure("Invalid shopping list")]
  ELSE Apply1(SelectSeq(h[l].items, LAMBDA a : KeepsItem(h[a], categories)),
              LAMBDA filteredItems :
                [heap |-> Append(h, Spread(h[l],
                                   [title |-> FilteredTitle(h[l].title, categories),
                                    items |-> filteredItems,
                                    itemCount |-> Len(filteredItems),
                                    organized |-> organizeRefs(h, filteredItems),
                                    filteredCategories |-> categories])),
                 result |-> Success(Len(h) + 1)])

---------------------------------------------------------------------------
(* IngredientProcessor.consolidateIngredients on item objects, and         *)
(* ShoppingListManager.addIngredientsToExistingList                        *)

\* Mutant: the Map keeps the ingredient object itself.
StoreCopy_Alias(h, a) == [heap |-> h, ref |-> a]

\* this.consolidated.set(key, { ...ingredient }): the entry is a new object
StoreCopy(h, a) == [heap |-> Append(h, h[a]), ref |-> Len(h) + 1]

\* One turn of the forEach: st.heap is the heap, st.entries the Map as its
\* << key, address >> entries in insertion order.
ConsolidateRef(st, a) ==
  IF SkipsIngredient(st.heap[a]) THEN st
  ELSE LET key == ConsolidateKey(st.heap[a])
           at == {i \in DOMAIN st.entries : st.entries[i][1] = key}
       IN IF at # {}
          THEN LET existing == st.entries[CHOOSE i \in at : TRUE][2]
               IN [st EXCEPT !.heap[existing] = MergeInto(@, st.heap[a])]
          ELSE Apply1(StoreCopy(st.heap, a),
                      LAMBDA copy :
                        [heap |-> copy.heap, entries |-> Append(st.entries, <<key, copy.ref>>)])

RECURSIVE ConsolidateRefsLoop(_, _)
ConsolidateRefsLoop(st, rest) ==
  Apply2(st, rest,
         LAMBDA s, rs :
           IF rs = << >> THEN s
           ELSE ConsolidateRefsLoop(Apply2(s, Head(rs), ConsolidateRef), Tail(rs)))

\* Array.from(this.consolidated.values())
consolidateRefs(h, refs) ==
  Apply1(ConsolidateRefsLoop([heap |-> h, entries |-> << >>], refs),
         LAMBDA st : [heap |-> st.heap,
                      refs |-> [i \in DOMAIN st.entries |-> st.entries[i][2]]])

\* !newRecipe || !newRecipe.ingredients
InvalidNewRecipe(newRecipe) == ~IsPlainObject(newRecipe) \/ ~Truthy(newRecipe.ingredients)

\* The list has a recipes array in every call modelled.
addIngredientsToExistingList(h, l, newRecipe) ==
  IF InvalidList(h, l) THEN [heap |-> h, result |-> Failure("Invalid shopping list")]
  ELSE IF InvalidNewRecipe(newRecipe) THEN [heap |-> h, result |-> Failure("Invalid recipe")]
  ELSE Apply1(StoreResult(h, generateFromRecipe(newRecipe)),
         LAMBDA new :
           IF ~new.result.success THEN [heap |-> h, result |-> new.result]
           ELSE Apply1(consolidateRefs(new.heap,
                                       h[l].items \o new.heap[new.result.shoppingList].items),
                  LAMBDA cons :
                    [heap |-> Append(cons.heap, Spread(h[l],
                                       [items |-> cons.refs,
                                        itemCount |-> Len(cons.refs),
                                        recipes |-> Append(h[l].recipes, newRecipe.id),
                                        modifiedAt |-> "new Date()",
                                        organized |-> organizeRefs(cons.heap, cons.refs)])),
                     result |-> Success(Len(cons.heap) + 1)]))

---------------------------------------------------------------------------
(* A caller that generates a shopping list and then transforms it: each    *)
(* successful call gives the list the next call is made on.                *)

\* Largest number of transformations applied in a row.
MaxCalls == 2

Recipe(id, title, lines) == [id |-> Str(id), title |-> title, ingredients |-> lines]

\* Ribs: three categories, one line without quantity.
RibsRecipe ==
  Recipe(<<"r", "1">>, Str(<<"R", "i", "b", "s">>),
         Arr(<<Str(<<"2", " ", "l", "b", "s", " ", "r", "i", "b", "s">>), Str(<<"1", " ", "t", "s", "p", " ", "s", "a", "l", "t">>), Str(<<"m", "i", "l", "k">>)>>))

\* Rub: the same item twice in one recipe, and an item of the Ribs recipe.
RubRecipe ==
  Recipe(<<"r", "2">>, Str(<<"R", "u", "b">>),
         Arr(<<Str(<<"1", "/", "2", " ", "t", "s", "p", " ", "S", "a", "l", "t">>), Str(<<"1", " ", "c", "u", "p", " ", "b", "r", "o", "w", "n", " ", "s", "u", "g", "a", "r">>), Str(<<"1", " ", "t", "s", "p", " ", "s", "a", "l", "t">>)>>))

\* Recipes the generator rejects, and recipes whose lines give no item.
OddRecipes ==
  { JsNull, Undefined, Str(<<"r", "i", "b", "s">>),
    Recipe(<<"r", "3">>, Undefined, Arr(<<Str(<<"1", " ", "c", "u", "p", " ", "m", "i", "l", "k">>)>>)),
    Recipe(<<"r", "3">>, Str(<< >>), Arr(<<Str(<<"1", " ", "c", "u", "p", " ", "m", "i", "l", "k">>)>>)),
    Recipe(<<"r", "3">>, Str(<<"O", "d", "d">>), Undefined),
    Recipe(<<"r", "3">>, Str(<<"O", "d", "d">>), Str(<<"1", " ", "c", "u", "p", " ", "m", "i", "l", "k">>)),
    Recipe(<<"r", "3">>, Str(<<"O", "d", "d">>), Arr(<< >>)),
    Recipe(<<"r", "3">>, Str(<<"O", "d", "d">>), Arr(<<JsNull>>)),
    Recipe(<<"r", "3">>, Str(<<"O", "d", "d">>), Arr(<<Str(<< >>)>>)),
    Recipe(<<"r", "3">>, Str(<<"O", "d", "d">>), Arr(<<Str(<<" ">>)>>)) }

GeneratorRecipes == {RibsRecipe, RubRecipe} \cup OddRecipes

\* Arrays of recipes given to the generator's generateFromMultipleRecipes.
GeneratorRecipeLists ==
  LET rs == {RibsRecipe, RubRecipe, JsNull,
             Recipe(<<"r", "3">>, Str(<<"O", "d", "d">>), Undefined),
             Recipe(<<"r", "3">>, Str(<<"O", "d", "d">>), Arr(<<Str(<<" ">>)>>))}
  IN {<< >>} \cup {<<r>> : r \in rs} \cup {<<r, s>> : r \in {RibsRecipe, RubRecipe}, s \in rs}

\* Multipliers: valid ones (1 included), zero, NaN, and a string.
ListMultipliers == {Num(2, 1), Num(1, 1), Num(1, 2), Num(0, 1), NaN, Str(<<"2">>)}

CategoryArgs ==
  { Arr(<<Str(<<"m", "e", "a", "t">>)>>), Arr(<<Str(<<"s", "p", "i", "c", "e", "s">>), Str(<<"m", "e", "a", "t">>)>>),
    Arr(<<Str(<<"v", "e", "g", "e", "t", "a", "b", "l", "e", "s">>)>>), Arr(<< >>), Undefined, Str(<<"m", "e", "a", "t">>) }

NewRecipes == {RibsRecipe, RubRecipe, JsNull, Recipe(<<"r", "3">>, Str(<<"O", "d", "d">>), Arr(<< >>))}

InitLists ==
  /\ pc = "ready"
  /\ heap = << >>
  /\ heldList = 0
  /\ lastCall = [op |-> "none"]
  /\ callResult = JsNull
  /\ heapBefore = << >>
  /\ calls = 0
  /\ IdleBut("manager")

\* The call returned out with the heap h on the list held so far.
Returned(call, out, count) ==
  /\ lastCall' = call
  /\ heapBefore' = heap
  /\ heap' = out.heap
  /\ callResult' = out.result
  /\ heldList' = IF out.result.success THEN out.result.shoppingList ELSE heldList
  /\ pc' = IF out.result.success THEN "held" ELSE "done"
  /\ calls' = count
  /\ UnchangedBut("manager")

CallGenerateFromRecipe ==
  /\ pc = "ready"
  /\ \E recipe \in GeneratorRecipes :
       Returned([op |-> "generateFromRecipe", recipe |-> recipe],
                StoreResult(heap, generateFromRecipe(recipe)), 0)

CallGenerateFromMultipleRecipes ==
  /\ pc = "ready"
  /\ \E rs \in GeneratorRecipeLists, customTitle \in CustomTitles :
       Returned([op |-> "generateFromMultipleRecipes", recipes |-> rs, customTitle |-> customTitle],
                StoreResult(heap, generateFromMultipleRecipes(rs, customTitle)), 0)

CallScaleQuantities ==
  /\ pc = "held"
  /\ calls < MaxCalls
  /\ \E multiplier \in ListMultipliers :
       Returned([op |-> "scaleQuantities", list |-> heldList, multiplier |-> multiplier],
                scaleQuantities(heap, heldList, multiplier), calls + 1)

CallFilterByCategory ==
  /\ pc = "held"
  /\ calls < MaxCalls
  /\ \E categories \in CategoryArgs :
       Returned([op |-> "filterByCategory", list |-> heldList, categories |-> categories],
                filterByCategory(heap, heldList, categories), calls + 1)

CallAddIngredientsToExistingList ==
  /\ pc = "held"
  /\ calls < MaxCalls
  /\ \E newRecipe \in NewRecipes :
       Returned([op |-> "addIngredientsToExistingList", list |-> heldList, newRecipe |-> newRecipe],
                addIngredientsToExistingList(heap, heldList, newRecipe), calls + 1)

NextLists ==
  \/ CallGenerateFromRecipe
  \/ CallGenerateFromMultipleRecipes
  \/ CallScaleQuantities
  \/ CallFilterByCategory
  \/ CallAddIngredientsToExistingList

SpecLists == InitLists /\ [][NextLists]_vars

---------------------------------------------------------------------------
(* ShoppingListValidator *)

maxListNameLength == 200
maxRecipeIds == 50

validCategories ==
  <<Str(<<"m", "e", "a", "t">>), Str(<<"v", "e", "g", "e", "t", "a", "b", "l", "e", "s">>), Str(<<"p", "a", "n", "t", "r", "y">>), Str(<<"s", "p", "i", "c", "e", "s">>), Str(<<"d", "a", "i", "r", "y">>)>>

Valid == [isValid |-> TRUE]
Invalid(error) == [isValid |-> FALSE, error |-> error]

\* The error texts are strings of characters: the manager puts them in its messages.
validateRecipe(recipe) ==
  IF ~IsPlainObject(recipe) THEN Invalid(<<"R", "e", "c", "i", "p", "e", " ", "m", "u", "s", "t", " ", "b", "e", " ", "a", "n", " ", "o", "b", "j", "e", "c", "t">>)
  ELSE IF ~Truthy(recipe.title) \/ recipe.title.t # "string" \/ Trim(recipe.title.s) = << >>
  THEN Invalid(<<"R", "e", "c", "i", "p", "e", " ", "m", "u", "s", "t", " ", "h", "a", "v", "e", " ", "a", " ", "v", "a", "l", "i", "d", " ", "t", "i", "t", "l", "e">>)
  ELSE IF ~Truthy(recipe.ingredients) \/ recipe.ingredients.t # "array"
  THEN Invalid(<<"R", "e", "c", "i", "p", "e", " ", "m", "u", "s", "t", " ", "h", "a", "v", "e", " ", "i", "n", "g", "r", "e", "d", "i", "e", "n", "t", "s", " ", "a", "r", "r", "a", "y">>)
  ELSE IF Len(recipe.ingredients.a) = 0
  THEN Invalid(<<"R", "e", "c", "i", "p", "e", " ", "m", "u", "s", "t", " ", "h", "a", "v", "e", " ", "a", "t", " ", "l", "e", "a", "s", "t", " ", "o", "n", "e", " ", "i", "n", "g", "r", "e", "d", "i", "e", "n", "t">>)
  ELSE Valid

\* /^[a-zA-Z0-9._-]+$/ on a string that is not empty
IsIdChar(c) == IsWord(c) \/ c \in {".", "-"}

validateRecipeId(id) ==
  /\ Truthy(id)
  /\ id.t = "string"
  /\ Len(Trim(id.s)) >= 2
  /\ Len(Trim(id.s)) <= 100
  /\ \A i \in DOMAIN Trim(id.s) : IsIdChar(Trim(id.s)[i])

\* The list names of the model hold no '<' and no '&', so that the three
\* replacements leave them as they are.
sanitizeHtml(input) == IF ~Truthy(input) THEN << >> ELSE Trim(input.s)

\* typeof cat !== 'string' || cat.trim() === '' || !this.validCategories.includes(cat)
InvalidCategory(cat) ==
  cat.t # "string" \/ Trim(cat.s) = << >> \/ ~\E i \in DOMAIN validCategories : validCategories[i] = cat

\* The errors of validateShoppingListRequest({recipeIds, listName, options}), in
\* the order in which they are pushed; recipeIds is a non-empty array and options
\* an object in every call the manager makes.
RecipeIdErrors(recipeIds) ==
  IF Len(recipeIds.a) > maxRecipeIds THEN <<"Cannot process more than 50 recipes at once">>
  ELSE IF \E i \in DOMAIN recipeIds.a : ~validateRecipeId(recipeIds.a[i])
  THEN <<"All recipe IDs must be non-empty strings">>
  ELSE << >>

ListNameErrors(listName) ==
  IF Truthy(listName) /\ Len(sanitizeHtml(listName)) > maxListNameLength
  THEN <<"List name must be 200 characters or less">>
  ELSE << >>

ScaleMultiplierErrors(scaleMultiplier) ==
  IF scaleMultiplier # Undefined /\
     (scaleMultiplier.t # "number" \/ NumLE0(scaleMultiplier) \/ ~IsFinite(scaleMultiplier))
  THEN <<"Scale multiplier must be a positive number">>
  ELSE << >>

CategoryFilterErrors(categoryFilter) ==
  IF categoryFilter = Undefined THEN << >>
  ELSE IF categoryFilter.t # "array" THEN <<"Category filter must be an array">>
  ELSE IF Len(categoryFilter.a) = 0 THEN <<"Category filter cannot be empty">>
  ELSE IF \E i \in DOMAIN categoryFilter.a : InvalidCategory(categoryFilter.a[i])
  THEN <<<<"I", "n", "v", "a", "l", "i", "d", " ", "c", "a", "t", "e", "g", "o", "r", "i", "e", "s", ":", " ">> \o Join(SelectSeq(categoryFilter.a, InvalidCategory), <<",", " ">>)>>
  ELSE << >>

validateShoppingListRequest(recipeIds, options) ==
  RecipeIdErrors(recipeIds) \o ListNameErrors(options.listName)
    \o ScaleMultiplierErrors(options.scaleMultiplier)
    \o CategoryFilterErrors(options.categoryFilter)

---------------------------------------------------------------------------
(* ShoppingListManager.generateFromSingleRecipe, generateFromMultipleRecipes *)

\* Valid by validateRecipe, but none of its lines gives an item.
EmptyLineRecipe == Recipe(<<"r", "4">>, Str(<<"O", "d", "d">>), Arr(<<Str(<< >>)>>))

\* Stored with a blank title.
UntitledRecipe == Recipe(<<"r", "3">>, Str(<<" ">>), Arr(<<Str(<<"1", " ", "c", "u", "p", " ", "m", "i", "l", "k">>)>>))

\* The recipes of the repository; findById resolves to null for any other id
\* and does not reject.
findById(recipeId) ==
  CASE recipeId = Str(<<"r", "1">>) -> RibsRecipe
    [] recipeId = Str(<<"r", "2">>) -> RubRecipe
    [] recipeId = Str(<<"r", "3">>) -> UntitledRecipe
    [] recipeId = Str(<<"r", "4">>) -> EmptyLineRecipe
    [] OTHER -> JsNull

\* options.scaleMultiplier && options.scaleMultiplier !== 1
ScalingRequested(options) ==
  Truthy(options.scaleMultiplier) /\ options.scaleMultiplier # Num(1, 1)

\* The list returned by gen, scaled if the options ask for it.
ApplyScaling(gen, options) ==
  IF ScalingRequested(options)
  THEN scaleQuantities(gen.heap, gen.result.shoppingList, options.scaleMultiplier)
  ELSE gen

\* options.categoryFilter && Array.isArray(options.categoryFilter)
FilterRequested(options) ==
  Truthy(options.categoryFilter) /\ options.categoryFilter.t = "array"

ApplyFilter(gen, options) ==
  IF FilterRequested(options)
  THEN filterByCategory(gen.heap, gen.result.shoppingList, options.categoryFilter)
  ELSE gen

\* listResult.shoppingList.title = options.listName, on the list just generated
ApplyListName(gen, options) ==
  IF Truthy(options.listName)
  THEN [gen EXCEPT !.heap[gen.result.shoppingList].title = options.listName.s]
  ELSE gen

\* generateFromSingleRecipe from the point where findById has resolved to recipe.
FromSingleRecipe(h, recipe, options) ==
  IF recipe = JsNull THEN [heap |-> h, result |-> Failure("Recipe not found")]
  ELSE IF ~validateRecipe(recipe).isValid
  THEN [heap |-> h,
        result |-> Failure(<<"I", "n", "v", "a", "l", "i", "d", " ", "r", "e", "c", "i", "p", "e", " ", "d", "a", "t", "a", ":", " ">> \o validateRecipe(recipe).error)]
  ELSE Apply1(StoreResult(h, generateFromRecipe(recipe)),
         LAMBDA gen :
           IF ~gen.result.success THEN gen
           ELSE ApplyScaling(ApplyListName(gen, options), options))

generateFromSingleRecipe(h, recipeId, options) ==
  Apply1(findById(recipeId), LAMBDA recipe : FromSingleRecipe(h, recipe, options))

\* Mutant: an id that is not found leaves no warning.
LookupOne_NoWarning(st, recipeId) ==
  LET recipe == findById(recipeId)
  IN IF recipe # JsNull
     THEN (IF validateRecipe(recipe).isValid
           THEN [st EXCEPT !.recipes = Append(@, recipe)]
           ELSE [st EXCEPT !.warnings =
                   Append(@, <<"I", "n", "v", "a", "l", "i", "d", " ", "r", "e", "c", "i", "p", "e", " ", "d", "a", "t", "a", " ", "f", "o", "r", " ">> \o recipeId.s \o <<":", " ">>
                               \o validateRecipe(recipe).error)])
     ELSE st

\* One turn of the for loop on recipes and warnings, from the point where
\* findById(recipeId) has resolved to recipe.
Looked(st, recipeId, recipe) ==
  IF recipe # JsNull
  THEN (IF validateRecipe(recipe).isValid
        THEN [st EXCEPT !.recipes = Append(@, recipe)]
        ELSE [st EXCEPT !.warnings =
                Append(@, <<"I", "n", "v", "a", "l", "i", "d", " ", "r", "e", "c", "i", "p", "e", " ", "d", "a", "t", "a", " ", "f", "o", "r", " ">> \o recipeId.s \o <<":", " ">>
                            \o validateRecipe(recipe).error)])
  ELSE [st EXCEPT !.warnings = Append(@, <<"R", "e", "c", "i", "p", "e", " ", "n", "o", "t", " ", "f", "o", "u", "n", "d", ":", " ">> \o recipeId.s)]

\* One turn of the for loop on recipes and warnings.
LookupOne(st, recipeId) == Looked(st, recipeId, findById(recipeId))

RECURSIVE LookupLoop(_, _)
LookupLoop(st, rest) ==
  IF rest = << >> THEN st ELSE LookupLoop(LookupOne(st, Head(rest)), Tail(rest))

\* if (warnings.length > 0) result.warnings = warnings
WithWarnings(out, warnings) ==
  IF out.result.success /\ warnings # << >>
  THEN [out EXCEPT !.result = Spread(@, [warnings |-> warnings])]
  ELSE out

\* options.listName || 'Combined Recipes - Shopping List'
ListNameOf(options) ==
  IF Truthy(options.listName) THEN options.listName ELSE Str(DefaultTitle)

\* The generation, then the scaling, then the filter: the first failure is returned.
GenerateScaleFilter(h, recipeList, options) ==
  Apply1(StoreResult(h, generateFromMultipleRecipes(recipeList, ListNameOf(options))),
    LAMBDA gen :
      IF ~gen.result.success THEN gen
      ELSE Apply1(ApplyScaling(gen, options),
             LAMBDA scaled :
               IF ~scaled.result.success THEN scaled ELSE ApplyFilter(scaled, options)))

\* generateFromMultipleRecipes from the end of the for loop.
FromRecipesFound(h, found, options) ==
  IF Len(found.recipes) = 0
  THEN [heap |-> h, result |-> Failure("No valid recipes found")]
  ELSE WithWarnings(GenerateScaleFilter(h, found.recipes, options), found.warnings)

managerGenerateFromMultipleRecipes(h, recipeIds, options) ==
  IF recipeIds.t # "array" \/ Len(recipeIds.a) = 0
  THEN [heap |-> h, result |-> Failure("No recipe IDs provided")]
  ELSE IF validateShoppingListRequest(recipeIds, options) # << >>
  THEN [heap |-> h, result |-> Failure(validateShoppingListRequest(recipeIds, options)[1])]
  ELSE Apply1(LookupLoop([recipes |-> << >>, warnings |-> << >>], recipeIds.a),
         LAMBDA found : FromRecipesFound(h, found, options))

---------------------------------------------------------------------------
(* Calls on a manager: one generation, then a direct call of scaleQuantities *)

\* Largest number of ids in a request.
MaxIds == 2

\* Ids of the four stored recipes, an id that is not stored, an id that is too short.
RequestIds ==
  {Str(<<"r", "1">>), Str(<<"r", "2">>), Str(<<"r", "3">>), Str(<<"r", "4">>), Str(<<"r", "9">>), Str(<<"x">>)}

RecipeIdArgs ==
  {Undefined} \cup {Arr(a) : a \in UNION {[1..n -> RequestIds] : n \in 0..MaxIds}}

Options(listName, scaleMultiplier, categoryFilter) ==
  [listName |-> listName, scaleMultiplier |-> scaleMultiplier, categoryFilter |-> categoryFilter]

\* No option, a list name, multipliers (valid, 1, zero, negative, NaN,
\* infinite), category filters (valid, empty, unknown category).
OptionArgs ==
  { Options(Undefined, Undefined, Undefined),
    Options(Str(<<"P", "a", "r", "t", "y">>), Undefined, Undefined),
    Options(Undefined, Num(2, 1), Undefined),
    Options(Undefined, Num(1, 1), Undefined),
    Options(Undefined, Num(0, 1), Undefined),
    Options(Undefined, Neg(1, 1), Undefined),
    Options(Undefined, NaN, Undefined),
    Options(Undefined, Infinity, Undefined),
    Options(Undefined, Undefined, Arr(<<Str(<<"m", "e", "a", "t">>)>>)),
    Options(Undefined, Undefined, Arr(<< >>)),
    Options(Undefined, Undefined, Arr(<<Str(<<"b", "o", "g", "u", "s">>)>>)),
    Options(Str(<<"P", "a", "r", "t", "y">>), Num(1, 2), Arr(<<Str(<<"s", "p", "i", "c", "e", "s">>), Str(<<"m", "e", "a", "t">>)>>)) }

DirectMultipliers == {Num(2, 1), Num(0, 1), Neg(1, 1), NaN, Infinity, Str(<<"2">>)}

InitManager == InitLists

CallGenerateFromSingleRecipe ==
  /\ pc = "ready"
  /\ \E recipeId \in RequestIds, options \in OptionArgs :
       Returned([op |-> "generateFromSingleRecipe", recipeId |-> recipeId, options |-> options],
                generateFromSingleRecipe(heap, recipeId, options), 0)

CallManagerGenerateFromMultipleRecipes ==
  /\ pc = "ready"
  /\ \E recipeIds \in RecipeIdArgs, options \in OptionArgs :
       Returned([op |-> "managerGenerateFromMultipleRecipes", recipeIds |-> recipeIds,
                 options |-> options],
                managerGenerateFromMultipleRecipes(heap, recipeIds, options), 0)

CallScaleQuantitiesDirectly ==
  /\ pc = "held"
  /\ calls = 0
  /\ \E multiplier \in DirectMultipliers :
       Returned([op |-> "scaleQuantities", list |-> heldList, multiplier |-> multiplier],
                scaleQuantities(heap, heldList, multiplier), 1)

NextManager ==
  \/ CallGenerateFromSingleRecipe
  \/ CallManagerGenerateFromMultipleRecipes
  \/ CallScaleQuantitiesDirectly

SpecManager == InitManager /\ [][NextManager]_vars

---------------------------------------------------------------------------
(* ReminderFormatter.formatAsFraction *)

\* Math.floor(x), x finite and not negative
Floor(x) == x.n \div x.d

\* Math.round(x * 100) / 100, x finite and not negative
Round2(x) == Num((200 * x.n + x.d) \div (2 * x.d), 100)

\* Mutant: the entries of the two thirds are exchanged.
commonFractionsGet_Swapped(rounded) ==
  CASE rounded = Num(1, 4) -> Str(<<"1", "/", "4">>)
    [] rounded = Num(33, 100) -> Str(<<"2", "/", "3">>)
    [] rounded = Num(1, 2) -> Str(<<"1", "/", "2">>)
    [] rounded = Num(67, 100) -> Str(<<"1", "/", "3">>)
    [] rounded = Num(3, 4) -> Str(<<"3", "/", "4">>)
    [] OTHER -> Undefined

\* this.commonFractions[rounded]
commonFractionsGet(rounded) ==
  CASE rounded = Num(1, 4) -> Str(<<"1", "/", "4">>)
    [] rounded = Num(33, 100) -> Str(<<"1", "/", "3">>)
    [] rounded = Num(1, 2) -> Str(<<"1", "/", "2">>)
    [] rounded = Num(67, 100) -> Str(<<"2", "/", "3">>)
    [] rounded = Num(3, 4) -> Str(<<"3", "/", "4">>)
    [] OTHER -> Undefined

denominators == <<2, 3, 4, 5, 6, 8, 10, 12, 16>>

\* Math.abs(decimal - (num / denom)) < tolerance, with tolerance = 0.01
WithinTolerance(decimal, num, denom) ==
  LET diff == decimal.n * denom - num * decimal.d
  IN 100 * (IF diff < 0 THEN 0 - diff ELSE diff) < decimal.d * denom

\* The first << denom, num >> of the two loops that is within the tolerance, or << >>.
SimpleFraction(decimal) ==
  LET hits == {p \in (DOMAIN denominators) \X (1..15) :
                 p[2] < denominators[p[1]] /\ WithinTolerance(decimal, p[2], denominators[p[1]])}
  IN IF hits = {} THEN << >>
     ELSE LET first == CHOOSE p \in hits :
                         \A q \in hits : p[1] < q[1] \/ (p[1] = q[1] /\ p[2] <= q[2])
          IN <<denominators[first[1]], first[2]>>

\* decimal is null or a number that is not negative.
formatAsFraction(decimal) ==
  IF decimal \in {JsNull, Undefined} THEN << >>
  ELSE IF decimal.d = 0 THEN NumberToString(decimal)
  ELSE IF decimal.d = 1 THEN NumberToString(decimal)
  ELSE IF Truthy(commonFractionsGet(Round2(decimal))) THEN commonFractionsGet(Round2(decimal)).s
  ELSE IF decimal.n > decimal.d /\
          Truthy(commonFractionsGet(Round2(Num(decimal.n % decimal.d, decimal.d))))
  THEN NatToString(Floor(decimal)) \o <<" ">>
         \o commonFractionsGet(Round2(Num(decimal.n % decimal.d, decimal.d))).s
  ELSE IF SimpleFraction(decimal) # << >>
  THEN (IF decimal.n > decimal.d THEN NatToString(Floor(decimal)) \o <<" ">> ELSE << >>)
         \o NatToString(SimpleFraction(decimal)[2]) \o <<"/">>
         \o NatToString(SimpleFraction(decimal)[1])
  ELSE NumberToString(decimal)

---------------------------------------------------------------------------
(* formatAsFraction(parseFraction(s)) *)

\* Largest whole part of the mixed numbers.
MaxWhole == 4

\* The fractions of commonFractions, as they are written.
CommonFractionTexts == {<<"1", "/", "2">>, <<"1", "/", "4">>, <<"3", "/", "4">>, <<"1", "/", "3">>, <<"2", "/", "3">>}

\* Other fractions whose value has a decimal expansion that ends.
EndingFractionTexts == {<<"1", "/", "5">>, <<"2", "/", "5">>, <<"1", "/", "8">>, <<"3", "/", "8">>, <<"1", "/", "1", "0">>, <<"1", "/", "1", "6">>}

\* Fractions below 1 within the tolerance of a simple fraction, fractions that
\* are not in lowest terms, decimals (0.45 is near no simple fraction) and integers.
OtherNumberTexts ==
  {<<"1", "/", "6">>, <<"5", "/", "6">>, <<"2", "/", "4">>, <<"4", "/", "2">>, <<"0", ".", "5">>, <<"0", ".", "3", "3">>, <<"1", ".", "5">>, <<"0", ".", "2">>, <<"1", ".", "2">>, <<"2">>, <<"1", "2">>, <<"0", ".", "4", "5">>}

FractionInputs ==
  CommonFractionTexts \cup EndingFractionTexts \cup OtherNumberTexts
    \cup {NatToString(w) \o <<" ">> \o s :
            w \in 1..MaxWhole, s \in CommonFractionTexts \cup EndingFractionTexts}

InitFraction ==
  /\ pc = "ready"
  /\ fractionText \in FractionInputs
  /\ fractionString = JsNull
  /\ IdleBut("fraction")

FormatParsedFraction ==
  /\ pc = "ready"
  /\ fractionString' = formatAsFraction(parseFraction(fractionText))
  /\ pc' = "done"
  /\ UNCHANGED fractionText
  /\ UnchangedBut("fraction")

NextFraction == FormatParsedFraction

SpecFraction == InitFraction /\ [][NextFraction]_vars

---------------------------------------------------------------------------
(* encodeURIComponent *)

\* The characters of codes 32 to 126, in the order of their codes ("grave"
\* stands for the grave accent, code 96).
AsciiPrintable ==
  <<" ", "!", "\"", "#", "$", "%", "&", "'", "(", ")", "*", "+", ",", "-", ".", "/">>
    \o Digits \o <<":", ";", "<", "=", ">", "?", "@">>
    \o UpperCase \o <<"[", "\\", "]", "^", "_", "grave">>
    \o LowerCase \o <<"{", "|", "}", "~">>

HexDigits == Digits \o <<"A", "B", "C", "D", "E", "F">>

\* The bytes of the UTF-8 encoding of the character c.
Utf8(c) ==
  CASE c = "n~" -> <<195, 177>>
    [] c = "\n" -> <<10>>
    [] c = "\t" -> <<9>>
    [] OTHER -> <<31 + IndexOf(AsciiPrintable, c)>>

PercentEncoded(c) ==
  LET bytes == Utf8(c)
      Escape(b) == <<"%", HexDigits[(b \div 16) + 1], HexDigits[(b % 16) + 1]>>
  IN IF Len(bytes) = 1 THEN Escape(bytes[1]) ELSE Escape(bytes[1]) \o Escape(bytes[2])

\* A-Z a-z 0-9 - _ . ! ~ * ' ( ) are not escaped.
UnreservedChars == WordChars \cup {"-", ".", "!", "~", "*", "'", "(", ")"}

RECURSIVE encodeURIComponent(_)
encodeURIComponent(text) ==
  IF text = << >> THEN << >>
  ELSE (IF Head(text) \in UnreservedChars THEN <<Head(text)>> ELSE PercentEncoded(Head(text)))
         \o encodeURIComponent(Tail(text))

---------------------------------------------------------------------------
(* ReminderFormatter *)

urlScheme == <<"s", "h", "o", "r", "t", "c", "u", "t", "s", ":", "/", "/", "r", "u", "n", "-", "s", "h", "o", "r", "t", "c", "u", "t">>
shortcutName == <<"A", "d", "d", " ", "S", "h", "o", "p", "p", "i", "n", "g", " ", "L", "i", "s", "t", " ", "t", "o", " ", "R", "e", "m", "i", "n", "d", "e", "r", "s">>

\* An object with the given << key, value >> entries, in the order of its keys.
Obj(entries) == [t |-> "object", entries |-> entries]
JsTrue == [t |-> "boolean", b |-> TRUE]

\* item is null or an item record.
formatItemText(item) ==
  IF item = JsNull THEN << >>
  ELSE (IF item.quantity \notin {JsNull, Undefined}
        THEN formatAsFraction(item.quantity)
               \o (IF Truthy(item.unit) THEN <<" ">> \o item.unit.s ELSE << >>) \o <<" ">>
        ELSE << >>)
         \o (IF item.item # << >> THEN item.item ELSE <<"U", "n", "k", "n", "o", "w", "n", " ", "i", "t", "e", "m">>)

\* A shopping list is null, undefined or a record with the fields title, items
\* and organized, each of which holds Undefined when the property is missing.
validateShoppingList(shoppingList) ==
  IF shoppingList \in {JsNull, Undefined} THEN Invalid("Shopping list is required")
  ELSE IF \/ ~Truthy(shoppingList.title)
          \/ shoppingList.title.t # "string"
          \/ Trim(shoppingList.title.s) = << >>
  THEN Invalid("Shopping list must have a valid title")
  ELSE IF ~Truthy(shoppingList.items) /\ ~Truthy(shoppingList.organized)
  THEN Invalid("Shopping list must have items or organized categories")
  ELSE IF Truthy(shoppingList.items) /\ shoppingList.items.t # "array"
  THEN Invalid("Shopping list items must be an array")
  ELSE Valid

\* Mutant: only the items of the first category.
flattenOrganizedItems_FirstCategory(entries) ==
  IF entries = << >> THEN << >> ELSE Head(entries)[2]

RECURSIVE flattenOrganizedItems(_)
flattenOrganizedItems(entries) ==
  IF entries = << >> THEN << >>
  ELSE Head(entries)[2] \o flattenOrganizedItems(Tail(entries))

\* The text of each item followed by a line feed.
RECURSIVE ItemLines(_)
ItemLines(items) ==
  IF items = << >> THEN << >>
  ELSE formatItemText(Head(items)) \o <<"\n">> \o ItemLines(Tail(items))

\* The forEach over the categories of formatForReminders, from index on.
RECURSIVE CategoryBlocks(_, _)
CategoryBlocks(entries, index) ==
  IF index > Len(entries) THEN << >>
  ELSE (IF index > 1 THEN <<"\n">> ELSE << >>)
         \o ToUpperCase(CategoryText(entries[index][1])) \o <<":", "\n">>
         \o ItemLines(entries[index][2])
         \o CategoryBlocks(entries, index + 1)

\* shoppingList.items is an array whenever the simple list is formatted here.
formatForReminders(shoppingList, options) ==
  LET validation == validateShoppingList(shoppingList)
  IN IF ~validation.isValid THEN Failure(validation.error)
     ELSE LET byCategory == Truthy(options.organizeByCategory) /\ Truthy(shoppingList.organized)
              reminderText == IF byCategory
                              THEN CategoryBlocks(shoppingList.organized.entries, 1)
                              ELSE ItemLines(shoppingList.items.a)
              itemCount == IF byCategory
                           THEN Len(flattenOrganizedItems(shoppingList.organized.entries))
                           ELSE Len(shoppingList.items.a)
          IN [success |-> TRUE, reminderText |-> Trim(reminderText),
              listName |-> shoppingList.title, itemCount |-> itemCount]

\* itemTexts.join('\n')
RECURSIVE JoinTexts(_)
JoinTexts(itemTexts) ==
  IF itemTexts = << >> THEN << >>
  ELSE IF Len(itemTexts) = 1 THEN itemTexts[1]
  ELSE itemTexts[1] \o <<"\n">> \o JoinTexts(Tail(itemTexts))

\* options is a record with the fields listName, organizeByCategory and platform.
generateReminderUrl(shoppingList, options) ==
  LET validation == validateShoppingList(shoppingList)
  IN IF ~validation.isValid THEN Failure(validation.error)
     ELSE IF ~Truthy(shoppingList.items) \/ Len(shoppingList.items.a) = 0
     THEN Failure("Shopping list is empty")
     ELSE LET listName == IF Truthy(options.listName) THEN options.listName
                          ELSE shoppingList.title
              items == IF Truthy(options.organizeByCategory) /\ Truthy(shoppingList.organized)
                       THEN flattenOrganizedItems(shoppingList.organized.entries)
                       ELSE shoppingList.items.a
              itemTexts == [i \in DOMAIN items |-> formatItemText(items[i])]
              simpleText == listName.s \o <<"\n", "\n">> \o JoinTexts(itemTexts)
              shortcutsUrl == urlScheme \o <<"?", "n", "a", "m", "e", "=">> \o encodeURIComponent(shortcutName)
                                \o <<"&", "i", "n", "p", "u", "t", "=">> \o encodeURIComponent(simpleText)
              formatResult == formatForReminders(shoppingList, options)
              fallbackUrl == <<"x", "-", "a", "p", "p", "l", "e", "-", "r", "e", "m", "i", "n", "d", "e", "r", "k", "i", "t", ":", "/", "/", "R", "E", "M", "S", "a", "v", "e", "R", "e", "q", "u", "e", "s", "t", "?", "r", "e", "m", "i", "n", "d", "e", "r", "T", "e", "x", "t", "=">>
                               \o encodeURIComponent(formatResult.reminderText)
                               \o <<"&", "l", "i", "s", "t", "N", "a", "m", "e", "=">> \o encodeURIComponent(listName.s)
          IN [success |-> TRUE, url |-> shortcutsUrl, fallbackUrl |-> fallbackUrl,
              listName |-> listName, itemCount |-> Len(items),
              shortcutRequired |-> TRUE, shortcutName |-> shortcutName,
              platform |-> IF Truthy(options.platform) THEN options.platform
                           ELSE Str(<<"i", "o", "s">>)]

---------------------------------------------------------------------------
(* Calls of generateReminderUrl *)

ReminderItems ==
  <<parseIngredient(Str(<<"2", " ", "l", "b", "s", " ", "r", "i", "b", "s">>)), parseIngredient(Str(<<"1", "/", "2", " ", "t", "s", "p", " ", "s", "a", "l", "t">>)),
    parseIngredient(Str(<<"m", "i", "l", "k">>))>>

ReminderTitles == {Undefined, Str(<<>>), Str(<<" ">>), Str(<<"B", "B", "Q", " ", "L", "i", "s", "t">>), Num(5, 1)}

\* Missing, null, empty, one item, three items, a string.
ReminderItemArgs ==
  {Undefined, JsNull, Arr(<< >>), Arr(<<ReminderItems[3]>>), Arr(ReminderItems), Str(<<"r", "i", "b", "s">>)}

\* Missing, without a category, the categories of the three items.
ReminderOrganizedArgs ==
  {Undefined, Obj(<< >>), Obj(organizeByCategory(ReminderItems))}

\* The shopping list object of a generator result, as the formatter reads it.
AsReminderList(shoppingList) ==
  [title |-> Str(shoppingList.title), items |-> Arr(shoppingList.items),
   organized |-> Obj(shoppingList.organized), recipes |-> shoppingList.recipes,
   itemCount |-> shoppingList.itemCount]

\* Lists assembled by the generator from one recipe and from two.
AssembledLists ==
  {AsReminderList(generateFromRecipe(r).shoppingList) : r \in {RibsRecipe, RubRecipe}}
    \cup {AsReminderList(generateFromMultipleRecipes(<<RibsRecipe, RubRecipe>>, t).shoppingList) :
            t \in {Undefined, Str(<<"C", "o", "o", "k", " ", "&", " ", "O", "u", "t">>)}}

ReminderLists ==
  {JsNull, Undefined}
    \cup [title : ReminderTitles, items : ReminderItemArgs, organized : ReminderOrganizedArgs]
    \cup AssembledLists

ReminderOptions ==
  [listName : {Undefined, Str(<<"P", "a", "r", "t", "y">>)}, organizeByCategory : {Undefined, JsTrue},
   platform : {Undefined}]

InitReminder ==
  /\ pc = "ready"
  /\ reminderList \in ReminderLists
  /\ reminderOptions \in ReminderOptions
  /\ urlResult = JsNull
  /\ IdleBut("reminder")

GenerateReminderUrl ==
  /\ pc = "ready"
  /\ urlResult' = generateReminderUrl(reminderList, reminderOptions)
  /\ pc' = "done"
  /\ UNCHANGED <<reminderList, reminderOptions>>
  /\ UnchangedBut("reminder")

NextReminder == GenerateReminderUrl

SpecReminder == InitReminder /\ [][NextReminder]_vars

---------------------------------------------------------------------------
(* consolidateIngredients on records whose quantities are doubles *)

\* The record that parseIngredient returns, its quantity being the double that
\* parseFloat or the division gives.
WithDoubleQuantity(entry) ==
  IF entry = JsNull THEN entry
  ELSE IF entry.quantity = JsNull THEN entry
  ELSE [entry EXCEPT !.quantity = ToDouble(entry.quantity)]

DoubleLines ==
  {<<"0", ".", "1", " ", "c", "u", "p", " ", "m", "i", "l", "k">>, <<"0", ".", "2", " ", "c", "u", "p", " ", "m", "i", "l", "k">>, <<"0", ".", "3", " ", "c", "u", "p", " ", "m", "i", "l", "k">>, <<"1", "/", "3", " ", "c", "u", "p", " ", "m", "i", "l", "k">>, <<"1", " ", "t", "s", "p", " ", "s", "a", "l", "t">>,
   <<"m", "i", "l", "k">>}

DoubleEntries == {WithDoubleQuantity(parseIngredient(Str(l))) : l \in DoubleLines}

DoubleInputs == UNION {[1..n -> DoubleEntries] : n \in 0..MaxIngredients}

InitDoubles ==
  /\ pc = "ready"
  /\ ingredients \in DoubleInputs
  /\ consolidated = << >>
  /\ IdleBut("consolidate")

SpecDoubles == InitDoubles /\ [][NextConsolidate]_vars

---------------------------------------------------------------------------
(* The saved lists of ShoppingListManager *)

validUnits ==
  <<Str(<<"c", "u", "p">>), Str(<<"c", "u", "p", "s">>), Str(<<"t", "a", "b", "l", "e", "s", "p", "o", "o", "n">>), Str(<<"t", "a", "b", "l", "e", "s", "p", "o", "o", "n", "s">>), Str(<<"t", "b", "s", "p">>),
    Str(<<"t", "s", "p">>), Str(<<"t", "e", "a", "s", "p", "o", "o", "n">>), Str(<<"t", "e", "a", "s", "p", "o", "o", "n", "s">>),
    Str(<<"p", "o", "u", "n", "d">>), Str(<<"p", "o", "u", "n", "d", "s">>), Str(<<"l", "b">>), Str(<<"l", "b", "s">>), Str(<<"o", "u", "n", "c", "e">>),
    Str(<<"o", "u", "n", "c", "e", "s">>), Str(<<"o", "z">>),
    Str(<<"g", "r", "a", "m">>), Str(<<"g", "r", "a", "m", "s">>), Str(<<"g">>), Str(<<"k", "i", "l", "o", "g", "r", "a", "m">>), Str(<<"k", "i", "l", "o", "g", "r", "a", "m", "s">>),
    Str(<<"k", "g">>),
    Str(<<"p", "i", "n", "t">>), Str(<<"p", "i", "n", "t", "s">>), Str(<<"p", "t">>), Str(<<"q", "u", "a", "r", "t">>), Str(<<"q", "u", "a", "r", "t", "s">>), Str(<<"q", "t">>),
    Str(<<"g", "a", "l", "l", "o", "n">>), Str(<<"g", "a", "l", "l", "o", "n", "s">>), Str(<<"g", "a", "l">>), Str(<<"l", "i", "t", "e", "r">>), Str(<<"l", "i", "t", "e", "r", "s">>),
    Str(<<"l">>),
    Str(<<"i", "n", "c", "h">>), Str(<<"i", "n", "c", "h", "e", "s">>), Str(<<"i", "n">>)>>

\* Map.prototype.has, get, set and delete on the entries << key, value >>.
MapHas(entries, key) == \E i \in DOMAIN entries : entries[i][1] = key

MapGet(entries, key) ==
  IF MapHas(entries, key) THEN entries[CHOOSE i \in DOMAIN entries : entries[i][1] = key][2]
  ELSE Undefined

\* Mutant: a key that is present gets a second entry.
MapSet_Appends(entries, key, value) == Append(entries, <<key, value>>)

\* An entry that is present keeps its place.
MapSet(entries, key, value) ==
  IF MapHas(entries, key)
  THEN [i \in DOMAIN entries |-> IF entries[i][1] = key THEN <<key, value>> ELSE entries[i]]
  ELSE Append(entries, <<key, value>>)

MapDelete(entries, key) == SelectSeq(entries, LAMBDA entry : entry[1] # key)

\* `list-${Date.now()}-${Math.random().toString(36).substr(2, 9)}`, for the
\* random text given.
generateListId(time, random) == Str(<<"l", "i", "s", "t", "-">> \o NatToString(time) \o <<"-">> \o random)

\* The result and the Map after saveShoppingList(shoppingList, listId); random
\* is the text that Math.random() gives when an id is generated.
saveShoppingList(entries, time, shoppingList, listId, random) ==
  LET id == IF Truthy(listId) THEN listId ELSE generateListId(time, random)
      savedList == [listId |-> id, shoppingList |-> shoppingList, savedAt |-> time,
                    version |-> 1]
  IN [savedLists |-> MapSet(entries, id, savedList),
      result |-> [success |-> TRUE, listId |-> id, savedAt |-> savedList.savedAt]]

\* Mutant: the order of the Map.
SortBySavedAt_Unsorted(values) == values

\* values.sort((a, b) => b.savedAt - a.savedAt): the sort is stable.
SortBySavedAt(values) ==
  LET Rank(i) == 1 + Cardinality({j \in DOMAIN values :
                                    \/ values[j].savedAt > values[i].savedAt
                                    \/ (values[j].savedAt = values[i].savedAt /\ j < i)})
  IN [k \in DOMAIN values |-> values[CHOOSE i \in DOMAIN values : Rank(i) = k]]

getSavedLists(entries) ==
  [success |-> TRUE, lists |-> SortBySavedAt([i \in DOMAIN entries |-> entries[i][2]])]

getSavedList(entries, listId) ==
  IF MapGet(entries, listId) = Undefined THEN Failure("Saved list not found")
  ELSE [success |-> TRUE, savedList |-> MapGet(entries, listId)]

deleteSavedList(entries, listId) ==
  [savedLists |-> MapDelete(entries, listId),
   result |-> [success |-> TRUE, deleted |-> MapHas(entries, listId)]]

getStatistics(entries) ==
  [savedListsCount |-> Len(entries), availableCategories |-> validCategories,
   supportedUnits |-> validUnits]

clearSavedLists(entries) ==
  [savedLists |-> << >>, result |-> [success |-> TRUE, message |-> "All saved lists cleared"]]

---------------------------------------------------------------------------
(* Calls on the saved lists *)

\* Largest number of calls that write to the store, and latest time of the clock.
MaxWrites == 3
MaxTime == 1

StoreLists ==
  {[title |-> Str(<<"L", "i", "s", "t", " ", "1">>), items |-> Arr(<< >>)],
   [title |-> Str(<<"L", "i", "s", "t", " ", "2">>), items |-> Arr(<< >>)]}

StoreIds == {Str(<<"l", "i", "s", "t", "-", "1">>), Str(<<"l", "i", "s", "t", "-", "2">>)}

\* Texts that Math.random() can give.
RandomTexts == {<<"k", "3", "x", "9", "q", "2", "m", "1", "z">>}

\* The ids asked for: the ids given to a save and the ids that a save returned
\* and that are still present.
KnownIds == StoreIds \cup {savedLists[i][1] : i \in DOMAIN savedLists}

InitStore ==
  /\ pc = "ready"
  /\ savedLists = << >>
  /\ now = 0
  /\ storeCall = [op |-> "none"]
  /\ storeResult = JsNull
  /\ savedBefore = << >>
  /\ storeLog = << >>
  /\ IdleBut("store")

\* Time passes between two calls.
Tick ==
  /\ now < MaxTime
  /\ now' = now + 1
  /\ UNCHANGED <<pc, savedLists, storeCall, storeResult, savedBefore, storeLog>>
  /\ UnchangedBut("store")

\* A call that writes to the store: its outcome out has the new Map and the result.
Wrote(call, out) ==
  /\ Len(storeLog) < MaxWrites
  /\ savedBefore' = savedLists
  /\ savedLists' = out.savedLists
  /\ storeCall' = call
  /\ storeResult' = out.result
  /\ storeLog' = Append(storeLog, call)
  /\ UNCHANGED <<pc, now>>
  /\ UnchangedBut("store")

\* A call that only reads the store.
Read(call, result) ==
  /\ savedBefore' = savedLists
  /\ storeCall' = call
  /\ storeResult' = result
  /\ UNCHANGED <<pc, now, savedLists, storeLog>>
  /\ UnchangedBut("store")

CallSaveShoppingList ==
  \E shoppingList \in StoreLists, listId \in StoreIds \cup {JsNull}, random \in RandomTexts :
    LET out == saveShoppingList(savedLists, now, shoppingList, listId, random)
    IN Wrote([op |-> "saveShoppingList", shoppingList |-> shoppingList,
              listId |-> out.result.listId], out)

CallDeleteSavedList ==
  \E listId \in KnownIds :
    Wrote([op |-> "deleteSavedList", listId |-> listId], deleteSavedList(savedLists, listId))

CallClearSavedLists == Wrote([op |-> "clearSavedLists"], clearSavedLists(savedLists))

CallGetSavedList ==
  \E listId \in KnownIds :
    Read([op |-> "getSavedList", listId |-> listId], getSavedList(savedLists, listId))

CallGetSavedLists == Read([op |-> "getSavedLists"], getSavedLists(savedLists))

CallGetStatistics == Read([op |-> "getStatistics"], getStatistics(savedLists))

NextStore ==
  \/ Tick
  \/ CallSaveShoppingList
  \/ CallDeleteSavedList
  \/ CallClearSavedLists
  \/ CallGetSavedList
  \/ CallGetSavedLists
  \/ CallGetStatistics

SpecStore == InitStore /\ [][NextStore]_vars

---------------------------------------------------------------------------
(* Calls in progress: generateFromSingleRecipe, generateFromMultipleRecipes *)
(* and generateFromAllRecipes, one step for each await                      *)

\* recipeRepository.findById(id) on the recipes repo: the first recipe with
\* that id, or null.
FindByIdIn(repo, id) ==
  IF \E i \in DOMAIN repo : repo[i].id = id
  THEN repo[CHOOSE i \in DOMAIN repo :
              repo[i].id = id /\ \A j \in 1..(i - 1) : repo[j].id # id]
  ELSE JsNull

\* The four recipes that findById knows.
StoredRecipes == <<RibsRecipe, RubRecipe, UntitledRecipe, EmptyLineRecipe>>

\* A call that has not been made yet.
NoTask ==
  [pc |-> "idle", op |-> "none", recipeIds |-> Undefined, options |-> Undefined,
   rest |-> << >>, recipes |-> << >>, warnings |-> << >>, result |-> JsNull,
   overlapped |-> FALSE]

Finished(task, result) == [task EXCEPT !.pc = "done", !.result = result]

\* generateFromMultipleRecipes(recipeIds, options) up to its first await.
BeginMultiple(task, recipeIds, options) ==
  IF recipeIds.t # "array" \/ Len(recipeIds.a) = 0
  THEN Finished(task, Failure("No recipe IDs provided"))
  ELSE IF validateShoppingListRequest(recipeIds, options) # << >>
  THEN Finished(task, Failure(validateShoppingListRequest(recipeIds, options)[1]))
  ELSE [task EXCEPT !.pc = "findById", !.options = options, !.rest = recipeIds.a,
                    !.recipes = << >>, !.warnings = << >>]

\* Mutant: the arrays recipes and warnings are those of the first caller.
Accumulators_OfFirstCaller(ts, caller) ==
  [recipes |-> ts["first"].recipes, warnings |-> ts["first"].warnings]

\* const recipes = []; const warnings = []: the arrays of the call of caller.
Accumulators(ts, caller) ==
  [recipes |-> ts[caller].recipes, warnings |-> ts[caller].warnings]

\* options.listName || 'All Recipes - Shopping List'
AllRecipesTitle == <<"A", "l", "l", " ", "R", "e", "c", "i", "p", "e", "s", " ", "-", " ", "S", "h", "o", "p", "p", "i", "n", "g", " ", "L", "i", "s", "t">>

WithAllRecipesName(options) ==
  IF Truthy(options.listName) THEN options
  ELSE [options EXCEPT !.listName = Str(AllRecipesTitle)]

\* The step of caller gave the task next and the heap h; overlapped records
\* that the call took a step while another call was in progress.
Stepped(caller, next, h) ==
  /\ tasks' = [tasks EXCEPT ![caller] =
                 [next EXCEPT !.overlapped =
                    @ \/ \E other \in DOMAIN tasks \ {caller} :
                           tasks[other].pc \notin {"idle", "done"}]]
  /\ heap' = h
  /\ UNCHANGED <<pc, repository, repositoryAtStart, heldList, lastCall, callResult,
                 heapBefore, calls>>
  /\ UnchangedBut("async")

AsyncIds == {Str(<<"r", "1">>), Str(<<"r", "2">>), Str(<<"r", "9">>)}

\* No id, one id (stored or not), two and three ids with one that is not stored.
AsyncIdArgs ==
  { Arr(<< >>), Arr(<<Str(<<"r", "1">>)>>), Arr(<<Str(<<"r", "9">>)>>),
    Arr(<<Str(<<"r", "1">>), Str(<<"r", "2">>)>>), Arr(<<Str(<<"r", "9">>), Str(<<"r", "2">>)>>),
    Arr(<<Str(<<"r", "2">>), Str(<<"r", "9">>), Str(<<"r", "1">>)>>) }

AsyncOptions ==
  { Options(Undefined, Undefined, Undefined),
    Options(Str(<<"P", "a", "r", "t", "y">>), Num(2, 1), Arr(<<Str(<<"s", "p", "i", "c", "e", "s">>), Str(<<"m", "e", "a", "t">>)>>)) }

\* generateFromSingleRecipe(recipeId, options) up to its await.
StartSingleRecipe(caller) ==
  /\ tasks[caller].pc = "idle"
  /\ \E recipeId \in AsyncIds, options \in AsyncOptions :
       Stepped(caller,
               [tasks[caller] EXCEPT !.pc = "findOne", !.op = "generateFromSingleRecipe",
                                     !.recipeIds = recipeId, !.options = options],
               heap)

\* The lookup of generateFromSingleRecipe resolves, and the call returns.
ResumeSingleRecipe(caller) ==
  /\ tasks[caller].pc = "findOne"
  /\ LET out == FromSingleRecipe(heap, FindByIdIn(repository, tasks[caller].recipeIds),
                                 tasks[caller].options)
     IN Stepped(caller, Finished(tasks[caller], out.result), out.heap)

StartMultipleRecipes(caller) ==
  /\ tasks[caller].pc = "idle"
  /\ \E recipeIds \in AsyncIdArgs, options \in AsyncOptions :
       Stepped(caller,
               BeginMultiple([tasks[caller] EXCEPT !.op = "generateFromMultipleRecipes",
                                                   !.recipeIds = recipeIds,
                                                   !.options = options],
                             recipeIds, options),
               heap)

\* A lookup of the for loop resolves; after the last one the call goes on to
\* its return.
ResumeLookup(caller) ==
  /\ tasks[caller].pc = "findById"
  /\ LET recipeId == Head(tasks[caller].rest)
         found == Looked(Accumulators(tasks, caller), recipeId,
                         FindByIdIn(repository, recipeId))
         out == FromRecipesFound(heap, found, tasks[caller].options)
     IN IF Len(tasks[caller].rest) > 1
        THEN Stepped(caller,
                     [tasks[caller] EXCEPT !.rest = Tail(@), !.recipes = found.recipes,
                                           !.warnings = found.warnings],
                     heap)
        ELSE Stepped(caller,
                     Finished([tasks[caller] EXCEPT !.rest = << >>,
                                                    !.recipes = found.recipes,
                                                    !.warnings = found.warnings],
                              out.result),
                     out.heap)

\* generateFromAllRecipes(options) up to its await.
StartAllRecipes(caller) ==
  /\ tasks[caller].pc = "idle"
  /\ \E options \in AsyncOptions :
       Stepped(caller,
               [tasks[caller] EXCEPT !.pc = "findAll", !.op = "generateFromAllRecipes",
                                     !.options = options],
               heap)

\* findAll resolves; the call goes on into generateFromMultipleRecipes, up to
\* the first await there.
ResumeFindAll(caller) ==
  /\ tasks[caller].pc = "findAll"
  /\ IF Len(repository) = 0
     THEN Stepped(caller, Finished(tasks[caller], Failure("No recipes available")), heap)
     ELSE Stepped(caller,
                  BeginMultiple([tasks[caller] EXCEPT
                                   !.recipeIds = Arr([i \in DOMAIN repository |->
                                                        repository[i].id])],
                                Arr([i \in DOMAIN repository |-> repository[i].id]),
                                WithAllRecipesName(tasks[caller].options)),
                  heap)

\* Another client deletes the oldest or the newest recipe while a call is in
\* its loop of lookups (a deletion before findAll is another repository at start).
DeleteRecipe ==
  /\ repository = repositoryAtStart
  /\ \E c \in DOMAIN tasks : tasks[c].pc = "findById"
  /\ \E i \in {1, Len(repository)} :
       /\ i \in DOMAIN repository
       /\ repository' = SubSeq(repository, 1, i - 1) \o SubSeq(repository, i + 1, Len(repository))
  /\ UNCHANGED <<pc, repositoryAtStart, tasks>>
  /\ UNCHANGED managerVars
  /\ UnchangedBut("async")

\* Two callers of one manager, over the stored recipes.
Callers == {"first", "second"}

InitConcurrent ==
  /\ pc = "ready"
  /\ repository = StoredRecipes
  /\ repositoryAtStart = repository
  /\ tasks = [c \in Callers |-> NoTask]
  /\ IdleBut("async")

NextConcurrent ==
  \E caller \in DOMAIN tasks :
    \/ StartSingleRecipe(caller)
    \/ ResumeSingleRecipe(caller)
    \/ StartMultipleRecipes(caller)
    \/ ResumeLookup(caller)

SpecConcurrent == InitConcurrent /\ [][NextConcurrent]_vars

---------------------------------------------------------------------------
(* generateFromAllRecipes on one manager, while recipes may be deleted *)

WithId(recipe, id) == [recipe EXCEPT !.id = id]

\* One recipe more than the validator lets through, of one line each: ids
\* r101, r102, ...
ManyRecipes ==
  [i \in 1..(maxRecipeIds + 1) |->
     Recipe(<<"r">> \o NatToString(100 + i), Str(<<"B", "r", "i", "n", "e">>), Arr(<<Str(<<"1", " ", "t", "s", "p", " ", "s", "a", "l", "t">>)>>))]

\* No recipe; the stored recipes; one, two and three recipes; recipes whose id is one
\* character, holds a space, or is null (Recipe: data.id || null); a recipe
\* that is not valid alone, a recipe whose lines give no item alone; many recipes.
AllRepositories ==
  { << >>,
    StoredRecipes,
    <<RubRecipe, RibsRecipe>>,
    <<RibsRecipe>>,
    <<RibsRecipe, UntitledRecipe, RubRecipe>>,
    <<WithId(RubRecipe, Str(<<"7">>)), RibsRecipe>>,
    <<RibsRecipe, WithId(RubRecipe, Str(<<"d", "r", "y", " ", "r", "u", "b">>))>>,
    <<WithId(RubRecipe, JsNull)>>,
    <<UntitledRecipe>>,
    <<EmptyLineRecipe>>,
    ManyRecipes }

InitAll ==
  /\ pc = "ready"
  /\ repository \in AllRepositories
  /\ repositoryAtStart = repository
  /\ tasks = [c \in {"first"} |-> NoTask]
  /\ IdleBut("async")

NextAll ==
  \/ \E caller \in DOMAIN tasks :
       \/ StartAllRecipes(caller)
       \/ ResumeFindAll(caller)
       \/ ResumeLookup(caller)
  \/ DeleteRecipe

SpecAll == InitAll /\ [][NextAll]_vars

---------------------------------------------------------------------------
(* Properties of consolidateIngredients (SpecConsolidate) *)

\* Positions of the input records that take part: not null, item not empty.
TakesPart(i) == ~SkipsIngredient(ingredients[i])

SamePair(a, b) == a.item = b.item /\ a.unit = b.unit

\* The group of input position i: the positions with the same (item, unit).
GroupOf(i) ==
  {j \in DOMAIN ingredients : TakesPart(j) /\ SamePair(ingredients[j], ingredients[i])}

FirstOf(S) == CHOOSE i \in S : \A j \in S : i <= j

\* Positions of the output records with the (item, unit) of input position i.
OutputsOf(i) == {k \in DOMAIN consolidated : SamePair(consolidated[k], ingredients[i])}

RECURSIVE QuantitySum(_)
QuantitySum(S) ==
  IF S = {} THEN Num(0, 1)
  ELSE LET j == FirstOf(S) IN NumAdd(ingredients[j].quantity, QuantitySum(S \ {j}))

HasQuantity(S) == {j \in S : ingredients[j].quantity # JsNull}

\* C1: a group of at least two records with the same (item, unit), all with a
\* quantity, gives exactly one output record: the first member with the quantity
\* replaced by the sum of the group's quantities and consolidated = true.
C1_SumsWholeGroup ==
  pc = "done" =>
    \A i \in DOMAIN ingredients :
      (TakesPart(i) /\ Cardinality(GroupOf(i)) >= 2 /\ HasQuantity(GroupOf(i)) = GroupOf(i))
        => /\ Cardinality(OutputsOf(i)) = 1
           /\ \A k \in OutputsOf(i) :
                consolidated[k] =
                  SetField(SetField(ingredients[FirstOf(GroupOf(i))], "quantity",
                                    QuantitySum(GroupOf(i))),
                           "consolidated", TRUE)

\* A group of three records with distinct original texts and quantities was summed.
C1_Witness ==
  /\ pc = "done"
  /\ Len(ingredients) = 3
  /\ \A i \in 1..3 : TakesPart(i) /\ GroupOf(i) = {1, 2, 3} /\ ingredients[i].quantity # JsNull
  /\ ingredients[1].originalText # ingredients[2].originalText
  /\ Len(consolidated) = 1
  /\ consolidated[1].quantity = Num(2, 1)

PairOf(r) == <<r.item, r.unit>>

\* The (item, unit) pairs of the records of s that take part, in order.
RECURSIVE PairsOf(_)
PairsOf(s) ==
  IF s = << >> THEN << >>
  ELSE (IF SkipsIngredient(Head(s)) THEN << >> ELSE <<PairOf(Head(s))>>) \o PairsOf(Tail(s))

\* s without the repetitions of an earlier element
RECURSIVE FirstAppearances(_)
FirstAppearances(s) ==
  IF s = << >> THEN << >>
  ELSE LET before == FirstAppearances(SubSeq(s, 1, Len(s) - 1))
       IN IF s[Len(s)] \in Range(before) THEN before ELSE Append(before, s[Len(s)])

\* C2: the output holds exactly one record per distinct (item, unit) pair of the
\* input records with a non-empty item, in the order of first appearance; records
\* that differ in item or in unit (a null unit equal to null only) are never merged.
C2_OneRecordPerPairInOrder ==
  pc = "done" =>
    [k \in DOMAIN consolidated |-> PairOf(consolidated[k])]
      = FirstAppearances(PairsOf(ingredients))

\* Same item under three different units (a canonical one, null, another canonical
\* one) stays three records, in input order.
C2_Witness ==
  /\ pc = "done"
  /\ Len(ingredients) = 3
  /\ \A i \in 1..3 : TakesPart(i) /\ ingredients[i].item = ingredients[1].item
  /\ ingredients[1].unit # JsNull /\ ingredients[2].unit = JsNull
  /\ ingredients[3].unit \notin {JsNull, ingredients[1].unit}
  /\ Len(consolidated) = 3
  /\ \A i \in 1..3 : consolidated[i] = ingredients[i]

\* C3 as stated: a group of at least two records in which some member has no
\* quantity is never summed; its output record is the first member, unchanged.
C3_NeverSumsWithNull ==
  pc = "done" =>
    \A i \in DOMAIN ingredients :
      (TakesPart(i) /\ Cardinality(GroupOf(i)) >= 2 /\ HasQuantity(GroupOf(i)) # GroupOf(i))
        => /\ Cardinality(OutputsOf(i)) = 1
           /\ \A k \in OutputsOf(i) : consolidated[k] = ingredients[FirstOf(GroupOf(i))]

\* C3 amended: in such a group the members without a quantity are dropped.  If
\* the first member has no quantity the output record is the first member,
\* unchanged.  Otherwise it is the first member unchanged when no later member
\* has a quantity, and else the first member with the quantity replaced by the sum
\* of the quantities of the members that have one and consolidated = true.
C3_SumsMembersWithQuantity ==
  pc = "done" =>
    \A i \in DOMAIN ingredients :
      (TakesPart(i) /\ Cardinality(GroupOf(i)) >= 2 /\ HasQuantity(GroupOf(i)) # GroupOf(i))
        => LET first == ingredients[FirstOf(GroupOf(i))]
               withQ == HasQuantity(GroupOf(i))
           IN /\ Cardinality(OutputsOf(i)) = 1
              /\ \A k \in OutputsOf(i) :
                   consolidated[k] =
                     IF first.quantity = JsNull \/ Cardinality(withQ) <= 1 THEN first
                     ELSE SetField(SetField(first, "quantity", QuantitySum(withQ)),
                                   "consolidated", TRUE)

\* Two members with a quantity and a later one without: the two were summed.
C3_Witness ==
  /\ pc = "done"
  /\ Len(ingredients) = 3
  /\ \A i \in 1..3 : TakesPart(i) /\ GroupOf(i) = {1, 2, 3}
  /\ HasQuantity({1, 2, 3}) = {1, 2}
  /\ Len(consolidated) = 1
  /\ consolidated[1].quantity = Num(5, 1)
  /\ consolidated[1].consolidated = TRUE

---------------------------------------------------------------------------
(* Properties of parseIngredient (SpecParse) *)

\* The unit vocabulary of the specification: << token, canonical form of its family >>
UnitVocabulary ==
  {
    << <<"c", "u", "p">>, <<"c", "u", "p">> >>,
    << <<"c", "u", "p", "s">>, <<"c", "u", "p">> >>,
    << <<"g", "a", "l">>, <<"g", "a", "l", "l", "o", "n">> >>,
    << <<"g", "a", "l", "l", "o", "n">>, <<"g", "a", "l", "l", "o", "n">> >>,
    << <<"g", "a", "l", "l", "o", "n", "s">>, <<"g", "a", "l", "l", "o", "n">> >>,
    << <<"i", "n">>, <<"i", "n", "c", "h">> >>,
    << <<"i", "n", "c", "h">>, <<"i", "n", "c", "h">> >>,
    << <<"i", "n", "c", "h", "e", "s">>, <<"i", "n", "c", "h">> >>,
    << <<"o", "u", "n", "c", "e">>, <<"o", "u", "n", "c", "e">> >>,
    << <<"o", "u", "n", "c", "e", "s">>, <<"o", "u", "n", "c", "e">> >>,
    << <<"o", "z">>, <<"o", "u", "n", "c", "e">> >>,
    << <<"p", "i", "n", "t">>, <<"p", "i", "n", "t">> >>,
    << <<"p", "i", "n", "t", "s">>, <<"p", "i", "n", "t">> >>,
    << <<"p", "t">>, <<"p", "i", "n", "t">> >>,
    << <<"l", "b">>, <<"p", "o", "u", "n", "d">> >>,
    << <<"l", "b", "s">>, <<"p", "o", "u", "n", "d">> >>,
    << <<"p", "o", "u", "n", "d">>, <<"p", "o", "u", "n", "d">> >>,
    << <<"p", "o", "u", "n", "d", "s">>, <<"p", "o", "u", "n", "d">> >>,
    << <<"q", "t">>, <<"q", "u", "a", "r", "t">> >>,
    << <<"q", "u", "a", "r", "t">>, <<"q", "u", "a", "r", "t">> >>,
    << <<"q", "u", "a", "r", "t", "s">>, <<"q", "u", "a", "r", "t">> >>,
    << <<"t", "a", "b", "l", "e", "s", "p", "o", "o", "n">>, <<"t", "a", "b", "l", "e", "s", "p", "o", "o", "n">> >>,
    << <<"t", "a", "b", "l", "e", "s", "p", "o", "o", "n", "s">>, <<"t", "a", "b", "l", "e", "s", "p", "o", "o", "n">> >>,
    << <<"t", "b", "s", "p">>, <<"t", "a", "b", "l", "e", "s", "p", "o", "o", "n">> >>,
    << <<"t", "e", "a", "s", "p", "o", "o", "n">>, <<"t", "e", "a", "s", "p", "o", "o", "n">> >>,
    << <<"t", "e", "a", "s", "p", "o", "o", "n", "s">>, <<"t", "e", "a", "s", "p", "o", "o", "n">> >>,
    << <<"t", "s", "p">>, <<"t", "e", "a", "s", "p", "o", "o", "n">> >>
  }

CanonicalUnits == {u[2] : u \in UnitVocabulary}

\* Well-formed quantities: << text, value >> (integer, decimal, n/d, mixed number)
WellFormedQuantities ==
  { << <<"2">>, Num(2, 1) >>,
    << <<"1", "2">>, Num(12, 1) >>,
    << <<"2", ".", "5">>, Num(5, 2) >>,
    << <<"1", "/", "2">>, Num(1, 2) >>,
    << <<"3", "/", "4">>, Num(3, 4) >>,
    << <<"1", " ", "1", "/", "2">>, Num(3, 2) >> }

\* The lines '<qty> <token> <item>' over the vocabulary, in three letter cases,
\* each with the decomposition the specification expects.
UnitCases ==
  UNION { { [line |-> q[1] \o <<" ">> \o v \o <<" ">> \o it,
             quantity |-> q[2], unit |-> Str(u[2]), item |-> ToLowerCase(it)] :
             q \in WellFormedQuantities, v \in CaseVariants(u[1]), it \in ItemTexts \ {<< >>} } :
          u \in UnitVocabulary }

\* C5: every line '<qty> <token> <item>' whose token is in the unit vocabulary, in
\* any letter case, parses to the value of <qty>, the canonical unit of the token's
\* family and the lower-cased item, and so gets the consolidation key
\* '<item>-<canonical unit>'.
C5_VocabularyParses ==
  pc = "done" =>
    \A c \in UnitCases :
      ingredientText = Str(c.line)
        => /\ parsed.quantity = c.quantity
           /\ parsed.unit = c.unit
           /\ parsed.item = c.item
           /\ ConsolidateKey(parsed) = c.item \o <<"-">> \o c.unit.s

\* Tokens of the inputs that are not, in any letter case, a key of the unit map.
NonUnitTokens ==
  {k \in TokenTexts : k # << >> /\ \A i \in DOMAIN unitMap : unitMap[i][1] # ToLowerCase(k)}

\* The lines '<qty> <token>' and '<qty> <token> <item>' whose token is no key of the map.
NonUnitCases ==
  UNION { { [line |-> q \o <<" ">> \o v \o (IF it = << >> THEN << >> ELSE <<" ">> \o it),
             item |-> ToLowerCase(v \o (IF it = << >> THEN << >> ELSE <<" ">> \o it))] :
             q \in QuantityTexts \ {<< >>}, v \in CaseVariants(k), it \in ItemTexts } :
          k \in NonUnitTokens }

\* C6: the unit of a returned record is null or one of the nine canonical units;
\* a token after the quantity that is no key of the unit map is not taken as the
\* unit and stays at the start of item.
C6_UnitNullOrCanonical ==
  (pc = "done" /\ parsed # JsNull) =>
    /\ parsed.unit \in {JsNull} \cup {Str(u) : u \in CanonicalUnits}
    /\ \A c \in NonUnitCases :
         ingredientText = Str(c.line) => parsed.unit = JsNull /\ parsed.item = c.item

\* The trimmed text does not start with a digit.
NoNumericPrefix(text) == text.t = "string" /\ ~IsDigit(CharAt(Trim(text.s), 1))

NoQuantityRecord(text) ==
  /\ parsed # JsNull
  /\ parsed.quantity = JsNull
  /\ parsed.unit = JsNull
  /\ parsed.item = ToLowerCase(Trim(text.s))

\* C7 as stated: every string with no leading numeric run parses to a record with
\* quantity = null, unit = null and item = the trimmed, lower-cased original.
C7_NoPrefixNoQuantity ==
  (pc = "done" /\ NoNumericPrefix(ingredientText)) => NoQuantityRecord(ingredientText)

\* C7 amended: every non-empty string with no leading numeric run parses to such
\* a record (the empty string gives null, not a record); a leading unit word is
\* kept inside item.
C7_NonEmptyNoPrefixNoQuantity ==
  (pc = "done" /\ NoNumericPrefix(ingredientText) /\ ingredientText.s # << >>)
    => NoQuantityRecord(ingredientText)

\* A line that starts with a unit word and has no quantity kept the word in item.
C7_Witness ==
  /\ pc = "done"
  /\ ingredientText = Str(<<"C", "u", "p", "s", " ", "f", "l", "o", "u", "r">>)
  /\ parsed.unit = JsNull
  /\ parsed.item = <<"c", "u", "p", "s", " ", "f", "l", "o", "u", "r">>

\* The lines '<qty> <unit>' with nothing after the unit.
BareUnitLines ==
  {q \o <<" ">> \o unitMap[i][1] : q \in QuantityTexts \ {<< >>}, i \in DOMAIN unitMap}

\* C8: for a string input that gives a record, item is not empty; when nothing
\* remains after the quantity and the unit, item is originalText.
C8_ItemNeverEmpty ==
  (pc = "done" /\ ingredientText.t = "string" /\ parsed # JsNull) =>
    /\ parsed.item # << >>
    /\ ingredientText.s \in BareUnitLines
         => parsed.item = parsed.originalText /\ parsed.originalText = ingredientText.s

\* C9 as stated: null is returned only for an absent or non-string input; every
\* string, the empty one included, gives a record.
C9_NullOnlyForNonString ==
  pc = "done" => (parsed = JsNull <=> ingredientText.t # "string")

\* C9 amended: null is returned exactly for an absent input, a non-string input
\* and the empty string; every non-empty string, a blank one included, gives a
\* record.
C9_NullForNonStringOrEmpty ==
  pc = "done" =>
    (parsed = JsNull <=> (ingredientText.t # "string" \/ ingredientText.s = << >>))

\* A string of spaces gave a record.
C9_Witness ==
  /\ pc = "done"
  /\ ingredientText.t = "string"
  /\ ingredientText.s # << >>
  /\ Trim(ingredientText.s) = << >>
  /\ parsed # JsNull

\* C10: the quantity of a returned record is null or a finite number greater than 0.
C10_QuantityNullOrPositive ==
  (pc = "done" /\ parsed # JsNull) =>
    \/ parsed.quantity = JsNull
    \/ IsFinite(parsed.quantity) /\ parsed.quantity.n > 0

---------------------------------------------------------------------------
(* Properties of generateFromMultipleRecipes (SpecGenerate) *)

HasIngredientsArray(recipe) == recipe.ingredients.t = "array"

\* The non-null parses of the lines of a recipe, in line order.
NonNullParses(recipe) ==
  SelectSeq([k \in DOMAIN recipe.ingredients.a |-> parseIngredient(recipe.ingredients.a[k])],
            LAMBDA x : x # JsNull)

\* The non-null parses of the recipes from position i on that have an ingredients
\* array: recipe order, then line order.
RECURSIVE ParsesFrom(_)
ParsesFrom(i) ==
  IF i > Len(recipes) THEN << >>
  ELSE (IF HasIngredientsArray(recipes[i]) THEN NonNullParses(recipes[i]) ELSE << >>)
         \o ParsesFrom(i + 1)

\* The ids of the recipes from position i on that have an ingredients array.
RECURSIVE IdsFrom(_)
IdsFrom(i) ==
  IF i > Len(recipes) THEN << >>
  ELSE (IF HasIngredientsArray(recipes[i]) THEN <<recipes[i].id>> ELSE << >>) \o IdsFrom(i + 1)

\* The sum of the quantities of the records of s at the positions of S.
RECURSIVE SumAt(_, _)
SumAt(s, S) ==
  IF S = {} THEN Num(0, 1)
  ELSE LET j == FirstOf(S) IN NumAdd(s[j].quantity, SumAt(s, S \ {j}))

\* C4: for a non-empty array of recipes, the recipes without an ingredients array
\* are skipped and the call succeeds as soon as one line of the others parses.
\* The items are consolidateIngredients of the non-null parses of the other
\* recipes (recipe order, then line order): lines, of any recipes, with the same
\* item and the same canonical unit give one item with the summed quantity and
\* consolidated = true; there are as many items as distinct (item, unit) keys
\* (records with an empty item have no key); recipes lists the ids of the recipes
\* not skipped, in input order.
C4_ItemsAreConsolidatedParses ==
  (pc = "done" /\ Len(recipes) > 0) =>
    Apply1(ParsesFrom(1),
      LAMBDA all :
        /\ listResult.success <=> (all # << >>)
        /\ listResult.success =>
             LET list == listResult.shoppingList
                 keyed == {k \in DOMAIN all : all[k].item # << >>}
             IN /\ list.items = consolidateIngredients(all)
                /\ list.itemCount = Cardinality({PairOf(all[k]) : k \in keyed})
                /\ Len(list.items) = list.itemCount
                /\ list.recipes = IdsFrom(1)
                /\ \A k \in keyed :
                     LET same == {j \in keyed : SamePair(all[j], all[k])}
                         out == {m \in DOMAIN list.items : SamePair(list.items[m], all[k])}
                     IN (all[k].unit.t = "string" /\ all[k].unit.s \in CanonicalUnits
                           /\ Cardinality(same) >= 2)
                          => /\ Cardinality(out) = 1
                             /\ \A m \in out :
                                  /\ list.items[m].quantity = SumAt(all, same)
                                  /\ list.items[m].consolidated = TRUE)

\* Two recipes with one line each, the same item under two spellings of the same
\* unit: one item, 1/2 + 1/4 = 3/4, consolidated, and both ids in order.
C4_Witness ==
  /\ pc = "done"
  /\ Len(recipes) = 2
  /\ \A i \in 1..2 : HasIngredientsArray(recipes[i]) /\ Len(recipes[i].ingredients.a) = 1
  /\ recipes[1].ingredients.a # recipes[2].ingredients.a
  /\ listResult.success
  /\ listResult.shoppingList.itemCount = 1
  /\ listResult.shoppingList.items[1].quantity = Num(3, 4)
  /\ listResult.shoppingList.items[1].consolidated = TRUE
  /\ listResult.shoppingList.recipes = <<RecipeId(1), RecipeId(2)>>

---------------------------------------------------------------------------
(* Properties of categorizeIngredient (SpecCategorize) *)

CategoryOrder == <<"meat", "vegetables", "spices", "dairy", "pantry">>

KeywordsOf(name) ==
  UNION {{categoryMap[c][2][j] : j \in DOMAIN categoryMap[c][2]} :
           c \in {c \in DOMAIN categoryMap : categoryMap[c][1] = name}}

OccursIn(keyword, text) ==
  \E i \in 1..Len(text) :
    i + Len(keyword) - 1 <= Len(text) /\
    \A j \in 1..Len(keyword) : text[i + j - 1] = keyword[j]

\* Positions in CategoryOrder of the categories with a keyword inside the lower-cased text.
MatchingCategories(text) ==
  {i \in DOMAIN CategoryOrder :
     \E k \in KeywordsOf(CategoryOrder[i]) : OccursIn(k, ToLowerCase(text))}

FirstMatchingCategory(text) ==
  LET m == MatchingCategories(text)
  IN IF m = {} THEN "pantry"
     ELSE CategoryOrder[CHOOSE i \in m : \A j \in m : i <= j]

\* C11: categorizeIngredient returns the first category, in the order meat,
\* vegetables, spices, dairy, pantry, that has a keyword occurring as a substring
\* of the lower-cased text, and pantry when no keyword occurs or the text is
\* empty; so the result is one of the five categories, and 'bell pepper' and
\* 'green onions' are vegetables although 'pepper' is a spice keyword.
C11_FirstCategoryInOrder ==
  pc = "done" /\ itemText # JsNull =>
    /\ itemCategory = FirstMatchingCategory(itemText)
    /\ itemCategory \in {CategoryOrder[i] : i \in DOMAIN CategoryOrder}
    /\ (itemText = << >> => itemCategory = "pantry")
    /\ (ToLowerCase(itemText) \in {<<"b", "e", "l", "l", " ", "p", "e", "p", "p", "e", "r">>, <<"g", "r", "e", "e", "n", " ", "o", "n", "i", "o", "n", "s">>}
          => itemCategory = "vegetables")

\* An upper-case text with keywords of two categories gets the earlier one.
C11_Witness ==
  /\ pc = "done"
  /\ itemText = <<"B", "E", "L", "L", " ", "P", "E", "P", "P", "E", "R">>
  /\ Cardinality(MatchingCategories(itemText)) = 2
  /\ itemCategory = "vegetables"

---------------------------------------------------------------------------
(* Properties of the shopping lists (SpecLists) *)

GenerationOps == {"generateFromRecipe", "generateFromMultipleRecipes"}
TransformOps == {"scaleQuantities", "filterByCategory", "addIngredientsToExistingList"}

\* The list returned by the last call, and the list the last call was made on
\* as it was before the call.
ReturnedList == heap[callResult.shoppingList]
SourceList == heapBefore[lastCall.list]

IsFailure(result) == ~result.success /\ DOMAIN result = {"success", "error"}

\* C12: generateFromRecipe and generateFromMultipleRecipes never return an
\* empty success: a recipe that is not an object, has no title, has a non-array
\* ingredients field or has no ingredients gives {success: false, error}
\* without a shopping list, and every success carries a list with itemCount >= 1.
C12_NoEmptySuccess ==
  lastCall.op \in GenerationOps =>
    /\ (lastCall.op = "generateFromRecipe" /\
        (\/ ~IsPlainObject(lastCall.recipe)
         \/ lastCall.recipe.title \in {Undefined, JsNull, Str(<< >>)}
         \/ lastCall.recipe.ingredients.t # "array"
         \/ lastCall.recipe.ingredients = Arr(<< >>))
          => IsFailure(callResult))
    /\ (callResult.success => ReturnedList.itemCount >= 1)

\* organized is the partition of the items of the list by category: distinct
\* categories, none of them empty, each holding the items of that category in
\* the order of items, and every item under its category.
IsPartitionByCategory(h, list) ==
  /\ \A c, d \in DOMAIN list.organized :
       list.organized[c][1] = list.organized[d][1] => c = d
  /\ \A c \in DOMAIN list.organized :
       /\ list.organized[c][2] # << >>
       /\ list.organized[c][2] =
            SelectSeq(list.items, LAMBDA a : h[a].category = list.organized[c][1])
  /\ \A i \in DOMAIN list.items :
       \E c \in DOMAIN list.organized : list.organized[c][1] = h[list.items[i]].category

\* C13: every list produced by a generation call, and every list obtained from
\* it by scaleQuantities, filterByCategory and addIngredientsToExistingList,
\* has itemCount = items.length and organized = the partition of items by category.
C13_CountAndPartition ==
  heldList # 0 =>
    /\ heap[heldList].itemCount = Len(heap[heldList].items)
    /\ IsPartitionByCategory(heap, heap[heldList])

\* A list obtained by two transformations, with two items in one category.
C13_Witness ==
  /\ calls = 2
  /\ callResult.success
  /\ Len(heap[heldList].organized) >= 2
  /\ \E c \in DOMAIN heap[heldList].organized : Len(heap[heldList].organized[c][2]) >= 2

\* C14: scaleQuantities, filterByCategory and addIngredientsToExistingList do
\* not modify the list they are given: after the call the list object (title,
\* items, organized, recipes, itemCount) and every item object of it are as
\* before; a success returns a new list object, a failure no list.
C14_SourceListUnchanged ==
  lastCall.op \in TransformOps =>
    /\ heap[lastCall.list] = SourceList
    /\ \A i \in DOMAIN SourceList.items :
         heap[SourceList.items[i]] = heapBefore[SourceList.items[i]]
    /\ (callResult.success => callResult.shoppingList \notin DOMAIN heapBefore)
    /\ (~callResult.success => "shoppingList" \notin DOMAIN callResult)

\* A recipe was added whose line was summed into an item of the list.
C14_Witness ==
  /\ lastCall.op = "addIngredientsToExistingList"
  /\ callResult.success
  /\ \E i \in DOMAIN ReturnedList.items, j \in DOMAIN SourceList.items :
       /\ "consolidated" \in DOMAIN heap[ReturnedList.items[i]]
       /\ heap[ReturnedList.items[i]].item = heapBefore[SourceList.items[j]].item
       /\ heap[ReturnedList.items[i]].unit = heapBefore[SourceList.items[j]].unit
       /\ heap[ReturnedList.items[i]].quantity # heapBefore[SourceList.items[j]].quantity

\* finite and greater than 0
ValidMultiplier(m) == m.t = "number" /\ m.d > 0 /\ m.n > 0

\* p = q * m for a finite m > 0: NaN and Infinity stay as they are
IsProduct(p, q, m) ==
  IF q.d = 0 THEN p = q
  ELSE p.t = "number" /\ p.d > 0 /\ p.n * q.d * m.d = q.n * m.n * p.d

\* The multipliers of the calls, as they are written in a title.
MultiplierText(m) ==
  CASE m = Num(2, 1) -> <<"2">>
    [] m = Num(1, 1) -> <<"1">>
    [] m = Num(1, 2) -> <<"0", ".", "5">>
    [] m = Num(3, 2) -> <<"1", ".", "5">>

\* C15: scaleQuantities(list, m) with a valid m, 1 included: an item with a
\* quantity q gets quantity q * m and originalQuantity q, an item without
\* quantity keeps null, every item gets scaled = true and keeps its other
\* fields, the items keep their order and number, the title is the source
\* title followed by ' (scaled <m>x)' and organized is recomputed.
C15_ScalesEveryItem ==
  lastCall.op = "scaleQuantities" /\ ValidMultiplier(lastCall.multiplier) =>
    /\ callResult.success
    /\ Len(ReturnedList.items) = Len(SourceList.items)
    /\ ReturnedList.itemCount = SourceList.itemCount
    /\ \A i \in DOMAIN SourceList.items :
         LET old == heapBefore[SourceList.items[i]]
             new == heap[ReturnedList.items[i]]
         IN /\ (old.quantity # JsNull =>
                  IsProduct(new.quantity, old.quantity, lastCall.multiplier))
            /\ (old.quantity = JsNull => new.quantity = JsNull)
            /\ (lastCall.multiplier = Num(1, 1) => new.quantity = old.quantity)
            /\ {"originalQuantity", "scaled"} \subseteq DOMAIN new
            /\ new.originalQuantity = old.quantity
            /\ new.scaled = TRUE
            /\ \A f \in DOMAIN old \ {"quantity", "scaled", "originalQuantity"} :
                 new[f] = old[f]
    /\ ReturnedList.title =
         SourceList.title \o <<" ", "(", "s", "c", "a", "l", "e", "d", " ">> \o MultiplierText(lastCall.multiplier) \o <<"x", ")">>
    /\ IsPartitionByCategory(heap, ReturnedList)

\* Scaled by 1: items with and without a quantity.
C15_Witness ==
  /\ lastCall.op = "scaleQuantities"
  /\ lastCall.multiplier = Num(1, 1)
  /\ callResult.success
  /\ \E i, j \in DOMAIN ReturnedList.items :
       /\ heap[ReturnedList.items[i]].quantity = JsNull
       /\ heap[ReturnedList.items[j]].originalQuantity # JsNull

\* The category arrays of the calls, as they are written in a title.
CategoriesText(categories) ==
  CASE categories = Arr(<<Str(<<"m", "e", "a", "t">>)>>) -> <<"m", "e", "a", "t">>
    [] categories = Arr(<<Str(<<"s", "p", "i", "c", "e", "s">>), Str(<<"m", "e", "a", "t">>)>>) -> <<"s", "p", "i", "c", "e", "s", ",", " ", "m", "e", "a", "t">>
    [] categories = Arr(<<Str(<<"v", "e", "g", "e", "t", "a", "b", "l", "e", "s">>)>>) -> <<"v", "e", "g", "e", "t", "a", "b", "l", "e", "s">>
    [] categories = Arr(<<Str(<<"d", "a", "i", "r", "y">>), Str(<<"p", "a", "n", "t", "r", "y">>), Str(<<"m", "e", "a", "t">>)>>) -> <<"d", "a", "i", "r", "y", ",", " ", "p", "a", "n", "t", "r", "y", ",", " ", "m", "e", "a", "t">>

\* C17: filterByCategory(list, cats) with a non-empty array keeps exactly the
\* items whose category is in cats, in their order, sets itemCount to their
\* number, appends ' (<cat1>, <cat2>, ...)' to the title and recomputes
\* organized; an empty, missing or non-array cats gives 'No categories specified'.
C17_KeepsListedCategories ==
  lastCall.op = "filterByCategory" =>
    IF lastCall.categories.t = "array" /\ lastCall.categories.a # << >>
    THEN /\ callResult.success
         /\ ReturnedList.items =
              SelectSeq(SourceList.items,
                        LAMBDA a : \E i \in DOMAIN lastCall.categories.a :
                                     lastCall.categories.a[i].s = CategoryText(heapBefore[a].category))
         /\ ReturnedList.itemCount = Len(ReturnedList.items)
         /\ ReturnedList.title =
              SourceList.title \o <<" ", "(">> \o CategoriesText(lastCall.categories) \o <<")">>
         /\ IsPartitionByCategory(heap, ReturnedList)
    ELSE callResult = Failure("No categories specified")

\* Two of the three categories of a list are kept.
C17_Witness ==
  /\ lastCall.op = "filterByCategory"
  /\ lastCall.categories = Arr(<<Str(<<"s", "p", "i", "c", "e", "s">>), Str(<<"m", "e", "a", "t">>)>>)
  /\ callResult.success
  /\ Len(SourceList.organized) = 3
  /\ Len(ReturnedList.organized) = 2
  /\ ReturnedList.itemCount < SourceList.itemCount

---------------------------------------------------------------------------
(* Properties of the manager's generation calls (SpecManager) *)

\* zero, negative, NaN or infinite
BadMultiplier(m) == m.t = "number" /\ (m.d = 0 \/ m.n <= 0)

\* C16: a scale multiplier that is zero, negative, NaN or infinite is always a
\* validation failure: scaleQuantities called directly, and
\* generateFromSingleRecipe and generateFromMultipleRecipes called with such a
\* value in options.scaleMultiplier, return success = false and no list.
C16_BadMultiplierFails ==
  /\ (lastCall.op = "scaleQuantities" /\ BadMultiplier(lastCall.multiplier)
        => ~callResult.success /\ "shoppingList" \notin DOMAIN callResult)
  /\ (lastCall.op \in {"generateFromSingleRecipe", "managerGenerateFromMultipleRecipes"}
        /\ BadMultiplier(lastCall.options.scaleMultiplier)
        => ~callResult.success /\ "shoppingList" \notin DOMAIN callResult)

\* A stored recipe that the manager takes: an object with a title that is not
\* blank and a non-empty ingredients array.
IsStoredValid(recipeId) ==
  LET recipe == findById(recipeId)
  IN /\ recipe # JsNull
     /\ recipe.title.t = "string"
     /\ \E i \in DOMAIN recipe.title.s : recipe.title.s[i] # " "
     /\ recipe.ingredients.t = "array"
     /\ recipe.ingredients.a # << >>

WellFormedIds == {Str(<<"r", "1">>), Str(<<"r", "2">>), Str(<<"r", "3">>), Str(<<"r", "4">>), Str(<<"r", "9">>)}

\* A request the validator accepts: well-formed ids, no scale multiplier or a
\* finite positive one, no category filter or a non-empty array of categories.
ValidRequest(call) ==
  /\ call.recipeIds.t = "array"
  /\ call.recipeIds.a # << >>
  /\ \A i \in DOMAIN call.recipeIds.a : call.recipeIds.a[i] \in WellFormedIds
  /\ call.options.scaleMultiplier = Undefined \/ ValidMultiplier(call.options.scaleMultiplier)
  /\ \/ call.options.categoryFilter = Undefined
     \/ /\ call.options.categoryFilter.t = "array"
        /\ call.options.categoryFilter.a # << >>
        /\ \A i \in DOMAIN call.options.categoryFilter.a :
             call.options.categoryFilter.a[i].s \in
               {CategoryText(CategoryOrder[c]) : c \in DOMAIN CategoryOrder}

ValidIds(ids) == SelectSeq(ids, IsStoredValid)
OtherIds(ids) == SelectSeq(ids, LAMBDA id : ~IsStoredValid(id))

IsPrefix(p, s) == Len(p) <= Len(s) /\ SubSeq(s, 1, Len(p)) = p

\* One warning for each id that is not found or not valid, in request order.
WarningsMatch(warnings, ids) ==
  /\ Len(warnings) = Len(ids)
  /\ \A i \in DOMAIN ids :
       IF findById(ids[i]) = JsNull
       THEN warnings[i] = <<"R", "e", "c", "i", "p", "e", " ", "n", "o", "t", " ", "f", "o", "u", "n", "d", ":", " ">> \o ids[i].s
       ELSE IsPrefix(<<"I", "n", "v", "a", "l", "i", "d", " ", "r", "e", "c", "i", "p", "e", " ", "d", "a", "t", "a", " ", "f", "o", "r", " ">> \o ids[i].s, warnings[i])

\* A success that lists the valid ids and carries the warnings, if any.
SucceedsWithWarnings(ids) ==
  /\ callResult.success
  /\ ReturnedList.recipes = ValidIds(ids)
  /\ ("warnings" \in DOMAIN callResult <=> OtherIds(ids) # << >>)
  /\ ("warnings" \in DOMAIN callResult => WarningsMatch(callResult.warnings, OtherIds(ids)))

SomeLineParses(ids) ==
  \E i \in DOMAIN ids :
    /\ IsStoredValid(ids[i])
    /\ \E j \in DOMAIN findById(ids[i]).ingredients.a :
         parseIngredient(findById(ids[i]).ingredients.a[j]) # JsNull

---------------------------------------------------------------------------
(* Properties of formatAsFraction after parseFraction (SpecFraction) *)

CanonicalFractions == {<<"1", "/", "2">>, <<"1", "/", "4">>, <<"3", "/", "4">>, <<"1", "/", "3">>, <<"2", "/", "3">>}

\* The text is '<w> ' followed by s, for a whole number w >= 1 in decimal digits.
IsMixedOf(text, s) ==
  /\ Len(text) > Len(s) + 1
  /\ SubSeq(text, Len(text) - Len(s) + 1, Len(text)) = s
  /\ text[Len(text) - Len(s)] = " "
  /\ \A i \in 1..(Len(text) - Len(s) - 1) : text[i] \in {Digits[k] : k \in DOMAIN Digits}
  /\ text[1] # "0"

---------------------------------------------------------------------------
(* Properties of generateReminderUrl (SpecReminder) *)

IsAbsent(x) == x \in {JsNull, Undefined}

\* The title is missing, not a string, empty or blank.
HasNoTitle(list) == IsAbsent(list.title) \/ list.title.t # "string" \/ Trim(list.title.s) = << >>

\* At least one category with at least one item.
HasOrganizedCategories(list) ==
  /\ ~IsAbsent(list.organized)
  /\ \E i \in DOMAIN list.organized.entries : list.organized.entries[i][2] # << >>

\* The failure cases listed for generateReminderUrl.
ListedFailureCase(list) ==
  \/ IsAbsent(list)
  \/ HasNoTitle(list)
  \/ (IsAbsent(list.items) /\ ~HasOrganizedCategories(list))
  \/ (list.items # Undefined /\ list.items.t # "array")
  \/ (list.items.t = "array" /\ list.items.a = << >>)

\* C20: generateReminderUrl returns a failure {success: false, error} exactly
\* when the list is absent, has a missing or blank title, has neither items nor
\* organized categories, has an items field that is not an array, or has an
\* empty items array; in every other case, in particular for a titled list with
\* non-empty organized categories, it returns success = true.
C20_FailsExactlyInListedCases ==
  pc = "done" =>
    /\ urlResult.success = ~ListedFailureCase(reminderList)
    /\ ~urlResult.success => "error" \in DOMAIN urlResult


\* The position of the first occurrence of k in s, 0 when there is none.
FindSub(s, k) ==
  LET at == {i \in 1..(Len(s) - Len(k) + 1) : SubSeq(s, i, i + Len(k) - 1) = k}
  IN IF at = {} THEN 0 ELSE CHOOSE i \in at : \A j \in at : i <= j

HexValue(c) == IndexOf(HexDigits, c) - 1

\* The character of a byte below 128.
CharOfCode(b) ==
  CASE b = 10 -> "\n"
    [] b = 9 -> "\t"
    [] OTHER -> AsciiPrintable[b - 31]

\* decodeURIComponent, for the bytes that the characters of the model give: an
\* escape is "%" and two hexadecimal digits, and %C3%B1 is one character.
decodeURIComponent(s) ==
  LET InEscape(i) == (i > 1 /\ s[i - 1] = "%") \/ (i > 2 /\ s[i - 2] = "%")
      Continues(i) == i > 3 /\ s[i] = "%" /\ SubSeq(s, i - 3, i - 1) = <<"%", "C", "3">>
      Starts(i) == ~InEscape(i) /\ ~Continues(i)
      starts == SelectSeq([i \in 1..Len(s) |-> i], Starts)
      Decoded(i) == IF s[i] # "%" THEN s[i]
                    ELSE IF SubSeq(s, i + 1, i + 2) = <<"C", "3">> THEN "n~"
                    ELSE CharOfCode(16 * HexValue(s[i + 1]) + HexValue(s[i + 2]))
  IN [k \in 1..Len(starts) |-> Decoded(starts[k])]

ShortcutPrefix == <<"s", "h", "o", "r", "t", "c", "u", "t", "s", ":", "/", "/", "r", "u", "n", "-", "s", "h", "o", "r", "t", "c", "u", "t", "?", "n", "a", "m", "e", "=", "A", "d", "d", "%", "2", "0", "S", "h", "o", "p", "p", "i", "n", "g", "%", "2", "0", "L", "i", "s", "t", "%", "2", "0", "t", "o", "%", "2", "0", "R", "e", "m", "i", "n", "d", "e", "r", "s", "&", "i", "n", "p", "u", "t", "=">>
FallbackPrefix == <<"x", "-", "a", "p", "p", "l", "e", "-", "r", "e", "m", "i", "n", "d", "e", "r", "k", "i", "t", ":", "/", "/", "R", "E", "M", "S", "a", "v", "e", "R", "e", "q", "u", "e", "s", "t", "?", "r", "e", "m", "i", "n", "d", "e", "r", "T", "e", "x", "t", "=">>
ListNameParameter == <<"&", "l", "i", "s", "t", "N", "a", "m", "e", "=">>

\* The items rendered: those of the categories when that is asked for and the
\* list has categories, those of the list otherwise.
RenderedItems(list, options) ==
  IF options.organizeByCategory = JsTrue /\ ~IsAbsent(list.organized)
  THEN flattenOrganizedItems(list.organized.entries)
  ELSE list.items.a

\* One line per item, a line feed between two lines.
RECURSIVE LinesOf(_)
LinesOf(items) ==
  IF items = << >> THEN << >>
  ELSE formatItemText(Head(items))
         \o (IF Tail(items) = << >> THEN << >> ELSE <<"\n">> \o LinesOf(Tail(items)))

\* The text block: the line of the list name, an empty line, the item lines.
TextBlock(name, items) == name \o <<"\n", "\n">> \o LinesOf(items)

IsAssembled(list) == ~IsAbsent(list) /\ "itemCount" \in DOMAIN list

ReminderKitPrefix == <<"x", "-", "a", "p", "p", "l", "e", "-", "r", "e", "m", "i", "n", "d", "e", "r", "k", "i", "t", ":", "/", "/", "R", "E", "M", "S", "a", "v", "e", "R", "e", "q", "u", "e", "s", "t">>

\* C22: for every shopping list accepted by generateReminderUrl, the url field
\* of the result is an x-apple-reminderkit://REMSaveRequest URL that contains
\* the URL-encoded list name and the URL-encoded text of each item, and
\* contains no unencoded space or newline.
C22_UrlIsReminderKitUrl ==
  (pc = "done" /\ urlResult.success) =>
    /\ SubSeq(urlResult.url, 1, Len(ReminderKitPrefix)) = ReminderKitPrefix
    /\ FindSub(urlResult.url, encodeURIComponent(urlResult.listName.s)) > 0
    /\ \A i \in DOMAIN reminderList.items.a :
         FindSub(urlResult.url, encodeURIComponent(formatItemText(reminderList.items.a[i]))) > 0
    /\ \A i \in DOMAIN urlResult.url : urlResult.url[i] \notin {" ", "\n"}
---------------------------------------------------------------------------
(* Consolidation and the order of the input (SpecDoubles) *)

\* The (item, unit, quantity, consolidated) tuples of a list of records.
QuantityTuples(list) ==
  {<<list[i].item, list[i].unit, list[i].quantity,
     IF "consolidated" \in DOMAIN list[i] THEN list[i].consolidated ELSE FALSE>> :
     i \in DOMAIN list}

AllHaveQuantity(list) ==
  \A i \in DOMAIN list : list[i] # JsNull /\ list[i].quantity # JsNull

\* C23: for every list whose records all have non-null quantities and for every
\* permutation of it, consolidateIngredients yields the same set of (item,
\* unit, quantity, consolidated) tuples.
C23_OrderIndependent ==
  (pc = "done" /\ AllHaveQuantity(ingredients)) =>
    \A p \in Permutations(DOMAIN ingredients) :
      QuantityTuples(consolidateIngredients([i \in DOMAIN ingredients |-> ingredients[p[i]]]))
        = QuantityTuples(consolidated)
---------------------------------------------------------------------------
(* Items of a generated list (SpecLists) *)

\* C24: in every shopping list returned by generateFromRecipe or
\* generateFromMultipleRecipes, items is post-consolidation: no two items have
\* the same (item, unit) pair, even when one recipe lists an ingredient twice.
C24_ItemsAreConsolidated ==
  (lastCall.op \in GenerationOps /\ callResult.success) =>
    \A i, j \in DOMAIN ReturnedList.items :
      (/\ heap[ReturnedList.items[i]].item = heap[ReturnedList.items[j]].item
       /\ heap[ReturnedList.items[i]].unit = heap[ReturnedList.items[j]].unit) => i = j
---------------------------------------------------------------------------
(* Letter case of the item (SpecParse) *)

\* C25: for every string line for which parseIngredient returns a record, item
\* equals its own lower-cased form, whatever the casing of the input and also
\* when the quantity and unit prefix leaves no remainder.
C25_ItemIsLowerCase ==
  (pc = "done" /\ parsed # JsNull) => parsed.item = ToLowerCase(parsed.item)
---------------------------------------------------------------------------
(* Rendering of numbers by formatAsFraction (SpecFraction) *)

\* The texts '<n>/<d>' of the fractions n/d, d in {2,3,4,5,6,8,10,12,16} and
\* 0 < n < d, that lie within 0.01 of the fraction f (0 <= f < 1).
NearFractionTexts(f) ==
  {NatToString(n) \o <<"/">> \o NatToString(d) :
     <<n, d>> \in {p \in (1..15) \X Range(denominators) :
                     /\ p[1] < p[2]
                     /\ LET diff == f.n * p[2] - p[1] * f.d
                        IN 100 * (IF diff < 0 THEN 0 - diff ELSE diff) < f.d * p[2]}}

\* C26: formatAsFraction renders a whole number as an integer without a decimal
\* point, and a non-integer value whose fractional part lies within 0.01 of n/d
\* for a denominator d in {2,3,4,5,6,8,10,12,16} as '<n>/<d>' when the value is
\* below 1 and as '<whole> <n>/<d>' when it is above 1; only a value with no
\* such fraction falls back to its decimal string.
C26_FractionOrDecimal ==
  pc = "done" =>
    LET decimal == parseFraction(fractionText)
        whole == decimal.n \div decimal.d
        near == NearFractionTexts(Num(decimal.n % decimal.d, decimal.d))
    IN IF decimal.d = 1 THEN fractionString = NatToString(decimal.n)
       ELSE IF near = {} THEN fractionString = NumberToString(decimal)
       ELSE IF whole = 0 THEN fractionString \in near
       ELSE fractionString \in {NatToString(whole) \o <<" ">> \o t : t \in near}
---------------------------------------------------------------------------
(* C27: the saved lists behave as a map from id to list *)

\* The last call of log that decides whether id is present: a save or a
\* deletion of id, or a clear; 0 when there is none.
LastDeciding(log, id) ==
  LET deciding == {i \in DOMAIN log :
                     \/ log[i].op = "clearSavedLists"
                     \/ (log[i].op \in {"saveShoppingList", "deleteSavedList"}
                         /\ log[i].listId = id)}
  IN IF deciding = {} THEN 0 ELSE CHOOSE i \in deciding : \A j \in deciding : j <= i

\* id was saved after its last deletion or clear.
SavedSince(log, id) ==
  LastDeciding(log, id) # 0 /\ log[LastDeciding(log, id)].op = "saveShoppingList"

\* The list most recently saved under id.
LastSavedUnder(log, id) == log[LastDeciding(log, id)].shoppingList

\* The ids under which a list was ever saved.
SavedIds(log) ==
  {log[i].listId : i \in {j \in DOMAIN log : log[j].op = "saveShoppingList"}}

AllButLast(log) == SubSeq(log, 1, Len(log) - 1)

\* C27: after any sequence of saveShoppingList, deleteSavedList and
\* clearSavedLists, getSavedList(id) succeeds iff id was saved after its last
\* deletion or clear, and then returns the list most recently saved under id;
\* deleteSavedList(id) returns success = true, with deleted = true iff id was
\* present, and leaves every other entry as it was; the savedListsCount of
\* getStatistics is the number of ids that are present.
C27_StoreIsMap ==
  /\ storeCall.op = "getSavedList" =>
       /\ storeResult.success <=> SavedSince(storeLog, storeCall.listId)
       /\ storeResult.success =>
            /\ "savedList" \in DOMAIN storeResult
            /\ storeResult.savedList.shoppingList = LastSavedUnder(storeLog, storeCall.listId)
  /\ storeCall.op = "deleteSavedList" =>
       /\ storeResult.success
       /\ storeResult.deleted <=> SavedSince(AllButLast(storeLog), storeCall.listId)
       /\ \A id \in SavedIds(storeLog) \ {storeCall.listId} :
            /\ MapGet(savedLists, id) = MapGet(savedBefore, id)
            /\ Cardinality({i \in DOMAIN savedLists : savedLists[i][1] = id})
                 = Cardinality({i \in DOMAIN savedBefore : savedBefore[i][1] = id})
       /\ ~ MapHas(savedLists, storeCall.listId)
  /\ storeCall.op = "getStatistics" =>
       storeResult.savedListsCount
         = Cardinality({id \in SavedIds(storeLog) : SavedSince(storeLog, id)})

\* An id that was saved, deleted and saved again with another list is asked for.
C27_Witness ==
     /\ storeCall.op = "getSavedList"
     /\ storeResult.success
     /\ Len(storeLog) = 3
     /\ storeLog[1].op = "saveShoppingList" /\ storeLog[1].listId = storeCall.listId
     /\ storeLog[2].op = "deleteSavedList" /\ storeLog[2].listId = storeCall.listId
     /\ storeLog[3].op = "saveShoppingList" /\ storeLog[3].listId = storeCall.listId
     /\ storeLog[3].shoppingList # storeLog[1].shoppingList

---------------------------------------------------------------------------
(* C28: getSavedLists returns the lists in the order of their saving *)

\* The ids under which the lists present were first saved since their last
\* deletion or clear, in that order.
SaveOrder(log) ==
  LET Removes(k, id) == \/ log[k].op = "clearSavedLists"
                        \/ (log[k].op = "deleteSavedList" /\ log[k].listId = id)
      first == SelectSeq([i \in DOMAIN log |-> i],
                 LAMBDA i : /\ log[i].op = "saveShoppingList"
                            /\ ~ \E k \in i..Len(log) : Removes(k, log[i].listId)
                            /\ ~ \E j \in 1..(i - 1) :
                                   /\ log[j].op = "saveShoppingList"
                                   /\ log[j].listId = log[i].listId
                                   /\ ~ \E k \in j..i : Removes(k, log[i].listId))
  IN [k \in DOMAIN first |-> log[first[k]].listId]

\* C28: getSavedLists returns every saved list exactly once, in the order in
\* which the lists were saved, whatever the time between the saves.
C28_SavedListsInSaveOrder ==
  storeCall.op = "getSavedLists" =>
    [k \in DOMAIN storeResult.lists |-> storeResult.lists[k].listId] = SaveOrder(storeLog)

---------------------------------------------------------------------------
(* C30: concurrent calls on one manager (SpecConcurrent) *)

\* The list object at address l of h, with its item objects in place of their
\* addresses.
ListValue(h, l) ==
  [h[l] EXCEPT !.items = [i \in DOMAIN h[l].items |-> h[h[l].items[i]]],
               !.organized = [c \in DOMAIN h[l].organized |->
                                <<h[l].organized[c][1],
                                  [j \in DOMAIN h[l].organized[c][2] |->
                                     h[h[l].organized[c][2][j]]]>>]]

\* A result, with the list it returns in place of the address of the list.
ResultValue(h, result) ==
  IF result.success THEN [result EXCEPT !.shoppingList = ListValue(h, result.shoppingList)]
  ELSE result

\* The result of the call of task when no other call is made on the manager.
AloneResult(task) ==
  LET out == IF task.op = "generateFromSingleRecipe"
             THEN generateFromSingleRecipe(<< >>, task.recipeIds, task.options)
             ELSE managerGenerateFromMultipleRecipes(<< >>, task.recipeIds, task.options)
  IN ResultValue(out.heap, out.result)

\* C30: in every interleaving of generateFromSingleRecipe and
\* generateFromMultipleRecipes calls on one manager, at the awaited lookups and
\* over an unchanged repository, each call returns the result it returns when
\* it runs alone, and a list that was returned stays as it was returned while
\* the other calls go on; the recipes of the repository are left unchanged.
C30_InterleavedAsAlone ==
  /\ repository = repositoryAtStart
  /\ \A caller \in DOMAIN tasks :
       tasks[caller].pc = "done" =>
         ResultValue(heap, tasks[caller].result) = AloneResult(tasks[caller])

\* Both calls have returned a list, each took steps while the other was in
\* progress, and the first one went through a loop with a warning.
C30_Witness ==
  /\ \A caller \in DOMAIN tasks :
       /\ tasks[caller].pc = "done"
       /\ tasks[caller].overlapped
       /\ tasks[caller].result.success
  /\ tasks["first"].op = "generateFromMultipleRecipes"
  /\ Len(tasks["first"].recipeIds.a) = 3
  /\ "warnings" \in DOMAIN tasks["first"].result
  /\ tasks["second"].op = "generateFromMultipleRecipes"
  /\ tasks["second"].recipes # tasks["first"].recipes

---------------------------------------------------------------------------
(* C29: generateFromAllRecipes (SpecAll) *)

\* The ids returned by findAll whose recipe is valid, and those of them whose
\* recipe is still there.
ValidAmong(repo, ids) ==
  SelectSeq(ids, LAMBDA id : /\ FindByIdIn(repo, id) # JsNull
                             /\ validateRecipe(FindByIdIn(repo, id)).isValid)

\* The records of all lines of the recipes with the ids given.
RECURSIVE RecordsOf(_, _)
RecordsOf(repo, ids) ==
  IF ids = << >> THEN << >>
  ELSE ProcessIngredients(FindByIdIn(repo, Head(ids)).ingredients.a) \o RecordsOf(repo, Tail(ids))

Holds(seq, x) == \E i \in DOMAIN seq : seq[i] = x

NoTransform(options) == options.scaleMultiplier = Undefined /\ options.categoryFilter = Undefined

\* The call of task returned a success that lists listed, ids of returned.
ListsRecipes(task, returned, listed) ==
  /\ task.result.success
  /\ ListValue(heap, task.result.shoppingList).recipes = listed
  /\ NoTransform(task.options) =>
       ListValue(heap, task.result.shoppingList).items
         = consolidateIngredients(RecordsOf(repositoryAtStart, listed))
  /\ \A i \in DOMAIN returned :
       Holds(ValidAmong(repositoryAtStart, returned), returned[i])
         /\ ~Holds(listed, returned[i])
       => /\ "warnings" \in DOMAIN task.result
          /\ Holds(task.result.warnings, <<"R", "e", "c", "i", "p", "e", " ", "n", "o", "t", " ", "f", "o", "u", "n", "d", ":", " ">> \o returned[i].s)

\* C29: generateFromAllRecipes fails with 'No recipes available' when findAll
\* returns no recipe and only then; for every other repository, whatever the
\* number of recipes and the form of their ids, it returns a success whose
\* recipes field lists the ids of the valid recipes returned by findAll, in
\* that order, and whose items are the consolidation of all their ingredient
\* lines; a recipe that disappears between findAll and its lookup gives a
\* warning 'Recipe not found', not a failure.
C29_AllRecipesGenerated ==
  \A caller \in DOMAIN tasks :
    tasks[caller].pc = "done" /\ tasks[caller].op = "generateFromAllRecipes" =>
      IF tasks[caller].recipeIds = Undefined
      THEN tasks[caller].result = Failure("No recipes available")
      ELSE \/ ListsRecipes(tasks[caller], tasks[caller].recipeIds.a,
                           ValidAmong(repositoryAtStart, tasks[caller].recipeIds.a))
           \/ ListsRecipes(tasks[caller], tasks[caller].recipeIds.a,
                           ValidAmong(repository, tasks[caller].recipeIds.a))

====
